---- MODULE Spec2Model ----
(***************************************************************************)
(* Backup orchestration engine of backup-everything-to-cloud.              *)
(*                                                                         *)
(* The model follows runBackup() of src/backup.js statement by statement:  *)
(* one action per awaited operation (one attempt of a retry-wrapped call,  *)
(* one initialize(), one testConnection(), one cleanupOldBackups()) and    *)
(* one action per synchronous stretch between two awaits.  The outcome of  *)
(* every external operation (archiver, pg_dump, rclone, S3) is chosen by   *)
(* the environment at each attempt.                                        *)
(***************************************************************************)
EXTENDS Integers, Sequences, FiniteSets, TLC

(***************************************************************************)
(* Bounds of the model and program constants.                              *)
(***************************************************************************)
\* longest .backup file explored (number of lines)
MaxLines == 2
\* longest "uploaders" array explored in .config
MaxUploaders == 2
\* retry(fn, maxRetries = 3, ...)
MaxRetries == 3
\* config.retention_days = config.retention_days || 7
DefaultRetentionDays == 7
\* retry(fn, maxRetries = 3, initialDelay = 1000)
DefaultInitialDelay == 1000
\* largest maxRetries argument explored
MaxRetriesArg == 3
\* largest number of files in a remote container
MaxRemote == 2
\* largest number of archives uploaded against the remote stores
MaxArchives == 1
\* longest "uploaders" array of the runs explored under fairness
MaxLiveUploaders == 1

(***************************************************************************)
(* JavaScript values.                                                      *)
(***************************************************************************)
\* A slot that holds a value or nothing is a sequence of length at most one.
\* undefined: a property that is not there, a parameter that was not passed
Undefined == <<>>
\* a slot holding the value v
Some(v) == <<v>>
\* an identifier that no enclosing scope declares: reading it throws
\* ReferenceError
Undeclared == <<>>
\* the process has not exited yet
Running == <<>>

\* !v  for a slot that holds a string
FalsyStr(v) == v = Undefined \/ v = Some("")
\* !v  for a slot that holds a number
FalsyNum(v) == v = Undefined \/ v = Some(0)

BoundedSeq(S, n) == UNION {[1..m -> S] : m \in 0..n}

(***************************************************************************)
(* Inputs: the lines of the .backup file and the .config document.         *)
(***************************************************************************)
\* One line of .backup.  `text` is the line as a sequence of pieces, `kind`
\* names the case the line stands for, `base` is path.basename() of a
\* folder or the database name, and `exists` says whether the folder is on
\* disk (a directory) when the run reads and archives it.
LineSet ==
  { [kind |-> "blank",    base |-> "",  exists |-> FALSE, text |-> <<>>],
    [kind |-> "blank",    base |-> "",  exists |-> FALSE, text |-> <<" ">>],
    [kind |-> "comment",  base |-> "",  exists |-> FALSE,
     text |-> <<"#", " ", "c">>],
    [kind |-> "comment",  base |-> "",  exists |-> FALSE,
     text |-> <<" ", "#", "c">>],
    [kind |-> "relative", base |-> "r", exists |-> TRUE,  text |-> <<"r">>],
    [kind |-> "absolute", base |-> "a", exists |-> TRUE,  text |-> <<"/", "a">>],
    [kind |-> "absolute", base |-> "a", exists |-> TRUE,
     text |-> <<"\t", "/", "a", " ">>],
    [kind |-> "absolute", base |-> "b", exists |-> FALSE, text |-> <<"/", "b">>],
    [kind |-> "postgres", base |-> "d", exists |-> TRUE,
     text |-> <<"postgres://", "d">>] }

\* The .backup file: missing, or its lines.
BackupFiles == {Undefined} \cup {Some(f) : f \in BoundedSeq(LineSet, MaxLines)}

\* One entry of the "uploaders" array of .config.
EntrySet ==
  { [type |-> Some("gdrive"),    enabled |-> Undefined,   bucket |-> Undefined,
     folder_path |-> Some("backups"), remote_name |-> Undefined,
     region |-> Undefined, prefix |-> Undefined],
    [type |-> Some("gdrive"),    enabled |-> Some(TRUE),  bucket |-> Some("bk"),
     folder_path |-> Some("backups"), remote_name |-> Some("mydrive"),
     region |-> Undefined, prefix |-> Undefined],
    [type |-> Some("s3-sdk"),    enabled |-> Some(TRUE),  bucket |-> Some("bk"),
     folder_path |-> Undefined, remote_name |-> Undefined,
     region |-> Some("eu-west-1"), prefix |-> Undefined],
    [type |-> Some("s3-sdk"),    enabled |-> Some(TRUE),  bucket |-> Some("bk"),
     folder_path |-> Undefined, remote_name |-> Undefined,
     region |-> Undefined, prefix |-> Some("backups/")],
    [type |-> Some("s3-rclone"), enabled |-> Some(TRUE),  bucket |-> Some("bk"),
     folder_path |-> Undefined, remote_name |-> Some("r1"),
     region |-> Undefined, prefix |-> Some("backups/")],
    [type |-> Some("s3-rclone"), enabled |-> Some(TRUE),  bucket |-> Some("bk"),
     folder_path |-> Undefined, remote_name |-> Undefined,
     region |-> Undefined, prefix |-> Some("")],
    [type |-> Some("s3-rclone"), enabled |-> Some(TRUE),  bucket |-> Undefined,
     folder_path |-> Undefined, remote_name |-> Undefined,
     region |-> Undefined, prefix |-> Undefined],
    [type |-> Some("s3-sdk"),    enabled |-> Some(TRUE),  bucket |-> Undefined,
     folder_path |-> Undefined, remote_name |-> Undefined,
     region |-> Undefined, prefix |-> Undefined],
    [type |-> Some("unknown-x"), enabled |-> Some(TRUE),  bucket |-> Undefined,
     folder_path |-> Undefined, remote_name |-> Undefined,
     region |-> Undefined, prefix |-> Undefined],
    [type |-> Undefined,         enabled |-> Some(FALSE), bucket |-> Undefined,
     folder_path |-> Undefined, remote_name |-> Undefined,
     region |-> Undefined, prefix |-> Undefined] }

RetentionSet == {Undefined, Some(0), Some(2), Some(-1)}

\* The .config file: unreadable (missing or not JSON), or a JSON document.
ConfigDocs ==
  { [readable |-> FALSE, google_drive_folder_path |-> Undefined,
     retention_days |-> Undefined, uploaders |-> Undefined] }
  \cup
  { [readable |-> TRUE, google_drive_folder_path |-> g,
     retention_days |-> r, uploaders |-> u] :
       g \in {Undefined, Some("backups")}, r \in RetentionSet,
       u \in {Undefined} \cup {Some(a) : a \in BoundedSeq(EntrySet, MaxUploaders)} }

\* The documents a whole run is explored with: every way in which the setup
\* fails and every list of destinations.  A disabled entry, the name of the
\* rclone remote, the key prefix and the value of retention_days change
\* nothing in what runBackup() does once the uploaders exist; they are
\* explored on the setup alone (SetupSpec) and against the remote stores
\* (DeliverySpec, CleanupSpec).
RunConfigDocs ==
  {doc \in ConfigDocs :
     /\ doc.retention_days = Undefined
     /\ doc.uploaders /= Undefined =>
          \A n \in 1..Len(doc.uploaders[1]) :
            /\ doc.uploaders[1][n].enabled /= Some(FALSE)
            /\ doc.uploaders[1][n].remote_name = Undefined
            /\ doc.uploaders[1][n].prefix = Undefined}

\* const appConfig before loadConfig() has returned
NoConfig == [retention_days |-> Undefined, uploaders |-> Undefined]
\* const archiveName before any target is in progress
NoName == [kind |-> "none", base |-> "", ts |-> 0]

(***************************************************************************)
(* State of one run.                                                       *)
(***************************************************************************)
VARIABLES
  pc,                 \* position in runBackup()
  configDoc,          \* history: the .config document loadConfig() parsed
  appConfig,          \* const appConfig = config.loadConfig()
  folders,            \* const { folders, databases } = loadBackupTargets()
  databases,
  uploaders,          \* const uploaders = UploaderFactory.createFromConfig()
  k,                  \* index of the loop in progress (uploader or target)
  i,                  \* index into allBackups in the upload loop
  stage,              \* database target: "dump" or "compress"
  attempt,            \* retry(): let attempt
  archiveName,        \* const archiveName of the target in progress
  clock,              \* the second of the last file name generated
  stamped,            \* no backoff sleep has ended since that name
  folderBackups,      \* const folderBackups = []
  dbBackups,          \* const dbBackups = []
  localFiles,         \* paths present in the local backup directory
  uploadSuccessCount, \* let uploadSuccessCount (block scoped)
  uploadFailCount,    \* let uploadFailCount (block scoped)
  folderResult,       \* history: outcome of retry() for each folder
  dbResult,           \* history: outcome of the database iteration
  uploadResult,       \* history: outcome of retry() for each pair
  cleanupCalls,       \* history: cleanupOldBackups() calls per uploader
  cleanupResult,      \* history: outcome of cleanupOldBackups()
  fatalAt,        \* history: the step whose error reached the outer catch
  fatalError,         \* history: error.message logged by the outer catch
  invoked,            \* history: external operations invoked so far
  printed,            \* history: lines of the final summary printed
  removed,            \* history: number of "Removed:" lines
  exitCode,           \* exit code of the process, or Running
  \* one call of retry(fn, maxRetries, initialDelay) on its own
  retryArgs,          \* the arguments maxRetries and initialDelay
  retryPc,            \* "idle", "loop" (inside the for loop) or "done"
  retryAttempt,       \* let attempt
  lastError,          \* let lastError
  sleeps,             \* history: the delays passed to sleep(), in order
  fnCalls,            \* history: number of invocations of fn
  fnFails,            \* history: number of invocations of fn that threw
  returned,           \* what retry() returned or threw, once it is done
  retryTrace,         \* history: the log lines and sleeps of retry(), in order
  \* one uploader on its own, its methods called in any order
  dest,               \* the uploader object
  remote,             \* the files in its remote container
  lastCall,           \* history: the last method call and what it did
  \* the upload and cleanup phases of a run, against the remote stores
  stores,             \* the files of every container of every remote
  calls,              \* history: the destination calls runBackup() made
  \* one call of loadBackupTargets() on its own
  targetsFile,        \* the .backup file
  parsed              \* what loadBackupTargets() returned or threw

runVars == <<pc, configDoc, appConfig, folders, databases, uploaders, k, i, stage, attempt,
          archiveName, clock, stamped, folderBackups, dbBackups, localFiles,
          uploadSuccessCount, uploadFailCount, folderResult, dbResult,
          uploadResult, cleanupCalls, cleanupResult, fatalAt, fatalError, invoked,
          printed, removed, exitCode>>

retryVars == <<retryArgs, retryPc, retryAttempt, lastError, sleeps, fnCalls,
               fnFails, returned, retryTrace>>

uploaderVars == <<dest, remote, lastCall>>

deliveryVars == <<stores, calls>>

parseVars == <<targetsFile, parsed>>

vars == <<runVars, retryVars, uploaderVars, deliveryVars, parseVars>>

\* the state of runBackup() when it is entered
RunInit ==
  /\ pc = "loadConfig"
  /\ configDoc = Undefined
  /\ appConfig = NoConfig
  /\ folders = <<>>
  /\ databases = <<>>
  /\ uploaders = <<>>
  /\ k = 0
  /\ i = 0
  /\ stage = "dump"
  /\ attempt = 0
  /\ archiveName = NoName
  /\ clock = 0
  /\ stamped = FALSE
  /\ folderBackups = <<>>
  /\ dbBackups = <<>>
  /\ localFiles = {}
  /\ uploadSuccessCount = Undeclared
  /\ uploadFailCount = Undeclared
  /\ folderResult = <<>>
  /\ dbResult = <<>>
  /\ uploadResult = <<>>
  /\ cleanupCalls = <<>>
  /\ cleanupResult = <<>>
  /\ fatalAt = "none"
  /\ fatalError = <<>>
  /\ invoked = {}
  /\ printed = {}
  /\ removed = 0
  /\ exitCode = Running

\* no call of retry() on its own is in progress
RetryIdle ==
  /\ retryArgs = [maxRetries |-> Undefined, initialDelay |-> Undefined]
  /\ retryPc = "idle"
  /\ retryAttempt = 0
  /\ lastError = Undefined
  /\ sleeps = <<>>
  /\ fnCalls = 0
  /\ fnFails = 0
  /\ returned = Undefined
  /\ retryTrace = <<>>

\* the call record before any method has been called
NoCall ==
  [op |-> "none", ok |-> TRUE, error |-> <<>>, tool |-> <<>>, remoteOps |-> 0,
   listing |-> <<>>, retentionDays |-> 0, ret |-> Undefined, deleted |-> {},
   before |-> {}, reported |-> 0, initFailed |-> FALSE, env |-> <<>>]

\* no uploader is exercised on its own
UploaderIdle ==
  /\ dest = [type |-> "none", initialized |-> FALSE, config |-> Undefined,
             bucket |-> Undefined, remoteName |-> Undefined,
             region |-> Undefined, prefix |-> Undefined]
  /\ remote = {}
  /\ lastCall = NoCall

\* no remote store is attached
DeliveryIdle ==
  /\ stores = <<>>
  /\ calls = {}

\* no call of loadBackupTargets() on its own
ParseIdle ==
  /\ targetsFile = Undefined
  /\ parsed = Undefined

Init == RunInit /\ RetryIdle /\ UploaderIdle /\ DeliveryIdle /\ ParseIdle

(***************************************************************************)
(* Results of calls that may throw.                                        *)
(***************************************************************************)
Ok(v) == [ok |-> TRUE, val |-> v]
\* throw new Error(msg).  A message is the sequence of the pieces it is
\* concatenated from; a template literal concatenates with \o.
Err(msg) == [ok |-> FALSE, val |-> msg]

\* String.prototype.includes.  Every message is cut at the phrases the
\* code searches for ('not found', 'rclone', 'directory not found'), so that
\* a phrase occurs in the text exactly when its pieces occur, in a row, among
\* the pieces of the message.
Includes(msg, phrase) ==
  \E n \in 1..(Len(msg) - Len(phrase) + 1) :
    SubSeq(msg, n, n + Len(phrase) - 1) = phrase

\* The characters String.prototype.trim removes: the WhiteSpace and the
\* LineTerminator code points of ECMAScript, each written by its escape or
\* by its code point.
Whitespace ==
  {" ", "\t", "\n", "\f", "\r",
   "<U+0009>", "<U+000a>", "<U+000b>", "<U+000c>", "<U+000d>", "<U+0020>",
   "<U+00a0>", "<U+1680>", "<U+2000>", "<U+2001>", "<U+2002>", "<U+2003>",
   "<U+2004>", "<U+2005>", "<U+2006>", "<U+2007>", "<U+2008>", "<U+2009>",
   "<U+200a>", "<U+2028>", "<U+2029>", "<U+202f>", "<U+205f>", "<U+3000>",
   "<U+feff>"}

RECURSIVE TrimStart(_)
TrimStart(t) ==
  IF t /= <<>> /\ Head(t) \in Whitespace THEN TrimStart(Tail(t)) ELSE t

RECURSIVE TrimEnd(_)
TrimEnd(t) ==
  IF t /= <<>> /\ t[Len(t)] \in Whitespace
  THEN TrimEnd(SubSeq(t, 1, Len(t) - 1))
  ELSE t

\* Variant of Trim: the lines are taken as they are.
TrimNothing(t) == t

\* line.trim()
Trim(t) == TrimEnd(TrimStart(t))

\* line.startsWith(prefix)
StartsWith(t, prefix) == t /= <<>> /\ Head(t) = prefix

\* path.isAbsolute(line)
IsAbsolute(t) == StartsWith(t, "/")

\* What loadBackupTargets() takes a trimmed line for: dropped by the filter
\* (blank, comment), a database, a folder, or a folder path that is refused.
KindOf(t) ==
  IF t = <<>> THEN "blank"
  ELSE IF StartsWith(t, "#") THEN "comment"
  ELSE IF StartsWith(t, "postgres://") THEN "postgres"
  ELSE IF IsAbsolute(t) THEN "absolute"
  ELSE "relative"

\* .map(line => line.trim())
TrimEach(lines) ==
  [n \in DOMAIN lines |-> [lines[n] EXCEPT !.text = Trim(@)]]

RECURSIVE SelectSeqBy(_, _)
\* Array.prototype.filter with the predicate given as the set of kinds kept
SelectSeqBy(s, kinds) ==
  IF s = <<>> THEN <<>>
  ELSE IF KindOf(Head(s).text) \in kinds
       THEN <<Head(s)>> \o SelectSeqBy(Tail(s), kinds)
       ELSE SelectSeqBy(Tail(s), kinds)

(***************************************************************************)
(* config.js                                                               *)
(***************************************************************************)
\* Config.loadConfig(): the document, with defaults filled in, or an error.
loadConfig(doc) ==
  IF ~doc.readable THEN Err(<<".config file ", "not found", " or not JSON">>)
  ELSE IF FalsyStr(doc.google_drive_folder_path)
       THEN Err(<<"google_drive_folder_path", "is required in .config">>)
       ELSE Ok([retention_days |-> IF FalsyNum(doc.retention_days)
                                   THEN Some(DefaultRetentionDays)
                                   ELSE doc.retention_days,
                uploaders |-> doc.uploaders])

\* Config.loadBackupTargets(): file is missing or holds its lines.
loadBackupTargets(file) ==
  IF file = Undefined THEN Err(<<".backup file ", "not found">>)
  ELSE LET lines == SelectSeqBy(TrimEach(file[1]),
                                {"relative", "absolute", "postgres"})
       IN IF \E n \in 1..Len(lines) : KindOf(lines[n].text) = "relative"
          THEN Err(<<"Folder path must be absolute">>)
          ELSE Ok([folders   |-> SelectSeqBy(lines, {"absolute"}),
                   databases |-> SelectSeqBy(lines, {"postgres"})])

(***************************************************************************)
(* uploaders/factory.js and the uploader constructors                      *)
(***************************************************************************)
\* The object a constructor builds.  Every constructor calls super() with
\* no argument, so BaseUploader leaves this.config undefined.
\*   GDriveUploader:   remoteName = config.remote_name || 'gdrive'
\*   S3RcloneUploader: remoteName = config.remote_name || 's3', bucket, region
\*   S3SdkUploader:    bucket, region = config.region || 'us-east-1'
\*   both S3 classes:  prefix = config.prefix || ''
\* storageClass is left out: no entry of .config explored here gives it,
\* so it is 'STANDARD' in every uploader.
NewUploader(type, config) ==
  [type |-> type, initialized |-> FALSE, config |-> Undefined,
   bucket |-> IF type = "gdrive" THEN Undefined ELSE config.bucket,
   remoteName |->
     IF type = "s3-sdk" THEN Undefined
     ELSE IF ~FalsyStr(config.remote_name) THEN config.remote_name
     ELSE IF type = "gdrive" THEN Some("gdrive") ELSE Some("s3"),
   region |->
     IF type = "gdrive" THEN Undefined
     ELSE IF ~FalsyStr(config.region) THEN config.region
     ELSE Some("us-east-1"),
   prefix |->
     IF type = "gdrive" THEN Undefined
     ELSE IF ~FalsyStr(config.prefix) THEN config.prefix
     ELSE Some("")]

\* `Supported types: gdrive, s3-rclone, s3-sdk`
SupportedTypes == <<"gdrive", "s3-rclone", "s3-sdk">>

\* Variant of Create: an unknown type falls back to the Google Drive
\* uploader instead of being rejected.
CreateFallback(type, config) ==
  CASE type \in {"s3-rclone", "s3-sdk"} ->
         IF FalsyStr(config.bucket) THEN Err(<<"S3", "bucket", "is required">>)
         ELSE Ok(NewUploader(type, config))
    [] OTHER -> Ok(NewUploader("gdrive", config))

\* Variant of Create: the object-store constructors do not look at the
\* bucket; a missing bucket shows only when the uploader is used.
CreateUnchecked(type, config) ==
  CASE type \in {"gdrive", "s3-rclone", "s3-sdk"} -> Ok(NewUploader(type, config))
    [] OTHER -> Err(<<"Unsupported uploader type: ", type,
                      "\nSupported types: ">> \o SupportedTypes)

\* UploaderFactory.create(type, config)
Create(type, config) ==
  CASE type = "gdrive" -> Ok(NewUploader(type, config))
    [] type \in {"s3-rclone", "s3-sdk"} ->
         IF FalsyStr(config.bucket) THEN Err(<<"S3", "bucket", "is required">>)
         ELSE Ok(NewUploader(type, config))
    [] OTHER -> Err(<<"Unsupported uploader type: ", type,
                      "\nSupported types: ">> \o SupportedTypes)

\* Variant of Skipped: if (!uploaderConfig.enabled) continue, which also
\* skips an entry that has no enabled field.
SkippedUnlessTruthy(e) == e.enabled \in {Undefined, Some(FALSE)}

\* if (uploaderConfig.enabled === false) continue
Skipped(e) == e.enabled = Some(FALSE)

RECURSIVE CreateEach(_, _)
\* the for loop of createFromConfig: acc is the array built so far
CreateEach(entries, acc) ==
  IF entries = <<>> THEN Ok(acc)
  ELSE LET e == Head(entries)
       IN IF Skipped(e) THEN CreateEach(Tail(entries), acc)
          ELSE IF FalsyStr(e.type)
               THEN Err(<<"uploader config must have a \"type\" field">>)
               ELSE LET c == Create(e.type[1], e)
                    IN IF c.ok THEN CreateEach(Tail(entries), Append(acc, c.val))
                       ELSE Err(<<"Failed to create uploader (type: ",
                                  e.type[1], "): ">> \o c.val)

\* Variant of CreateFromConfig: an empty result is returned as it is.
CreateFromConfigAllowEmpty(uploadersConfig) ==
  IF uploadersConfig = Undefined THEN Err(<<"uploaders config must be an array">>)
  ELSE CreateEach(uploadersConfig[1], <<>>)

\* UploaderFactory.createFromConfig(uploadersConfig)
CreateFromConfig(uploadersConfig) ==
  IF uploadersConfig = Undefined THEN Err(<<"uploaders config must be an array">>)
  ELSE LET r == CreateEach(uploadersConfig[1], <<>>)
       IN IF ~r.ok THEN r
          ELSE IF Len(r.val) = 0 THEN Err(<<"No enabled uploaders configured">>)
               ELSE r

(***************************************************************************)
(* uploaders/gdrive.js, s3-rclone.js, s3-sdk.js, base.js                   *)
(***************************************************************************)
\* A remote file is [name, createdTime]; time is counted in days.
\* new Date() while the uploader is exercised: day 3
Now == 3

RemoteFiles == [name : 1..MaxRemote, createdTime : 0..Now]

\* What initialize() finds on the machine: whether `rclone version` (for
\* s3-sdk: new S3Client()) runs, is missing, or fails otherwise, whether
\* `rclone listremotes` prints this.remoteName, and whether
\* AWS_ACCESS_KEY_ID and AWS_SECRET_ACCESS_KEY are in the environment.
InitEnvs ==
  [tool : {"runs", "missing", "fails"}, remotePresent : BOOLEAN,
   credentials : BOOLEAN]

\* `rclone remote '${this.remoteName}' not found. Please run ...` and
\* `rclone remote '${this.remoteName}' not found and AWS credentials not
\* in environment. ...`
RemoteMissing(u) ==
  <<"rclone", " remote '", u.remoteName[1], "' ", "not found",
    IF u.type = "gdrive" THEN ". Please run ..."
    ELSE " and AWS credentials not in environment">>

\* 'rclone is not installed. Install it first: ...'
NotInstalled == <<"rclone", " is not installed. Install it first">>

\* The try block of initialize() of the two rclone classes.  exec()
\* rejects with 'Command failed: ...' and what the shell or rclone printed:
\* 'command not found' when there is no rclone, another message otherwise.
InitializeBody(u, env) ==
  IF env.tool = "missing"
  THEN Err(<<"Command failed: ", "rclone", " version /bin/sh: ", "rclone",
             ": command ", "not found">>)
  ELSE IF env.tool = "fails"
  THEN Err(<<"Command failed: ", "rclone", " listremotes: ",
             "permission denied">>)
  ELSE IF env.remotePresent THEN Ok(TRUE)
  ELSE IF u.type = "s3-rclone" /\ env.credentials THEN Ok(TRUE)
  ELSE Err(RemoteMissing(u))

\* the test of the catch block of initialize(): gdrive looks for
\* 'not found', s3-rclone for 'not found' and 'rclone'
TakenForMissingTool(u, error) ==
  IF u.type = "gdrive" THEN Includes(error, <<"not found">>)
  ELSE Includes(error, <<"not found">>) /\ Includes(error, <<"rclone">>)

\* initialize(): Ok, or the error it throws.  S3SdkUploader builds its
\* client and wraps whatever the constructor throws.
InitializeOf(u, env) ==
  IF u.type = "s3-sdk"
  THEN IF env.tool = "runs" THEN Ok(TRUE)
       ELSE Err(<<"S3 SDK initialization failed: ", "client error">>)
  ELSE LET r == InitializeBody(u, env)
       IN IF ~r.ok /\ TakenForMissingTool(u, r.val) THEN Err(NotInstalled)
          ELSE r

\* 'Google Drive client not initialized' / 'S3 client not initialized'
NotInitialized(u) ==
  <<IF u.type = "gdrive" THEN "Google Drive client" ELSE "S3 client",
    "not initialized">>

\* Variant of NotReady: the method does not look at the flag.
NotReadyNever(u) == FALSE

\* if (!this.initialized) throw new Error('... client not initialized')
NotReady(u) == ~u.initialized

\* uploadFile(): throws before any remote call when the uploader is not
\* initialized or the local file is missing
UploadOutcomes(u, exists) ==
  IF ~u.initialized THEN {"NotInitialized"}
  ELSE IF ~exists THEN {"File not found"}
  ELSE {"ok", "UploadError"}

\* What the listing tool (rclone lsjson, ListObjectsV2) may fail with.
ToolErrors ==
  { <<"directory", "not found">>,
    <<"rclone", ": command ", "not found">>,
    <<"connection timed out">> }

\* the outcome of a remote operation: done, or failed with a tool error
ToolOk == [ok |-> TRUE, error |-> <<>>]

ToolOutcomes == {ToolOk} \cup {[ok |-> FALSE, error |-> e] : e \in ToolErrors}

\* Variant of Compare: oldest first.
CompareOldestFirst(a, b) == a.createdTime - b.createdTime

\* (a, b) => new Date(b.createdTime) - new Date(a.createdTime)
Compare(a, b) == b.createdTime - a.createdTime

RECURSIVE InsertSorted(_, _)
\* f put into a sorted array, after the elements it does not precede
InsertSorted(f, sorted) ==
  IF sorted = <<>> THEN <<f>>
  ELSE IF Compare(f, Head(sorted)) < 0
       THEN <<f>> \o sorted
       ELSE <<Head(sorted)>> \o InsertSorted(f, Tail(sorted))

RECURSIVE SortFiles(_)
\* Array.prototype.sort with Compare (a stable sort)
SortFiles(files) ==
  IF files = <<>> THEN <<>>
  ELSE InsertSorted(files[Len(files)], SortFiles(SubSeq(files, 1, Len(files) - 1)))

\* The catch of listFiles(): whether a tool error is taken for a missing
\* folder.  gdrive looks for 'directory not found', s3-rclone also for
\* 'not found', s3-sdk has no such case.
TakenForEmpty(u, error) ==
  CASE u.type = "gdrive" -> Includes(error, <<"directory", "not found">>)
    [] u.type = "s3-rclone" ->
         Includes(error, <<"directory", "not found">>)
           \/ Includes(error, <<"not found">>)
    [] OTHER -> FALSE

\* 'Failed to list Google Drive files: ' / 'Failed to list S3 files: '
FailedToList(u) ==
  IF u.type = "gdrive" THEN "Failed to list Google Drive files: "
  ELSE "Failed to list S3 files: "

\* listFiles(): files is the tool's output, in the tool's order, and tool
\* the outcome of the tool.  The result is [ok, error, listing, remoteOps].
ListFiles(u, files, tool) ==
  IF NotReady(u)
  THEN [ok |-> FALSE, error |-> NotInitialized(u), listing |-> <<>>,
        remoteOps |-> 0]
  ELSE IF tool.ok
  THEN [ok |-> TRUE, error |-> <<>>, listing |-> SortFiles(files),
        remoteOps |-> 1]
  ELSE IF TakenForEmpty(u, tool.error)
  THEN [ok |-> TRUE, error |-> <<>>, listing |-> <<>>, remoteOps |-> 1]
  ELSE [ok |-> FALSE, error |-> <<FailedToList(u)>> \o tool.error,
        listing |-> <<>>, remoteOps |-> 1]

\* deleteFile(): [ok, error, remoteOps]
DeleteFile(u, tool) ==
  IF NotReady(u)
  THEN [ok |-> FALSE, error |-> NotInitialized(u), remoteOps |-> 0]
  ELSE IF tool.ok
  THEN [ok |-> TRUE, error |-> <<>>, remoteOps |-> 1]
  ELSE [ok |-> FALSE, error |-> <<"Failed to delete file: ">> \o tool.error,
        remoteOps |-> 1]

\* The remote an uploader talks to, as the class addresses it: the rclone
\* remote this.remoteName of GDriveUploader (`${this.remoteName}:...`), the
\* rclone remote and the bucket of S3RcloneUploader
\* (`${this.remoteName}:${this.bucket}/...`), the bucket this.bucket of
\* S3SdkUploader.  Two addresses are two stores: whether two rclone
\* remotes reach one backend is rclone's configuration.
RemoteOf(u) == <<u.remoteName, u.bucket>>

\* A stored file is [folder, name, createdTime], name being its name in
\* the folder; a store is the set of the files of a remote.
\* the folders of a remote: its root and the folder "backups"
Containers == {"", "backups"}

\* what the keys of the files of a folder begin with
KeyPrefix == [c \in Containers |-> IF c = "" THEN "" ELSE "backups/"]

\* The folder of the remote uploadFile() and deleteFile() work in:
\* GDriveUploader uses the path it is called with
\* (`${this.remoteName}:${folderPath}`), the S3 uploaders ignore it and
\* put this.prefix before the file name.
ContainerOf(u, remotePath) ==
  IF u.type = "gdrive" THEN remotePath
  ELSE CHOOSE c \in Containers : KeyPrefix[c] = u.prefix[1]

\* The folders listFiles() returns the files of.  rclone lsjson (without
\* -R, directories filtered out) prints the files of the folder alone;
\* ListObjectsV2 {Bucket, Prefix: this.prefix} without Delimiter returns
\* every key that begins with the prefix: the whole bucket when it is ''.
ListedContainers(u, remotePath) ==
  IF u.type = "s3-sdk"
  THEN {c \in Containers : u.prefix = Some("") \/ KeyPrefix[c] = u.prefix[1]}
  ELSE {ContainerOf(u, remotePath)}

\* Variant of RemoveFrom: the files are deleted wherever they are.
RemoveEverywhere(st, u, remotePath, files) ==
  [r \in DOMAIN st |->
     {f \in st[r] : \A g \in files :
                      f.name /= g.name \/ f.createdTime /= g.createdTime}]

\* the stores after deleteFile() has succeeded for the listed files
RemoveFrom(st, u, remotePath, files) ==
  [st EXCEPT ![RemoteOf(u)] = @ \ files]

\* Variant of PutInto: the upload makes the folder a copy of the local one
\* (rclone sync), so what it held before is deleted.
PutIntoSync(st, u, remotePath, name) ==
  [st EXCEPT ![RemoteOf(u)] =
     {f \in @ : f.folder /= ContainerOf(u, remotePath)}
       \cup {[folder |-> ContainerOf(u, remotePath), name |-> name,
              createdTime |-> Now]}]

\* the stores after uploadFile() has copied a file named name
PutInto(st, u, remotePath, name) ==
  [st EXCEPT ![RemoteOf(u)] =
     {f \in @ : f.folder /= ContainerOf(u, remotePath) \/ f.name /= name}
       \cup {[folder |-> ContainerOf(u, remotePath), name |-> name,
              createdTime |-> Now]}]

\* cutoffDate.setDate(cutoffDate.getDate() - retentionDays)
Cutoff(now, retentionDays) == now - retentionDays

\* Variant of Expired: a file dated exactly at the cutoff is deleted too.
ExpiredInclusive(file, cutoffDate) == file.createdTime <= cutoffDate

\* if (fileDate < cutoffDate)
Expired(file, cutoffDate) == file.createdTime < cutoffDate

RECURSIVE ExpiredFiles(_, _)
\* the files of the listing the loop calls deleteFile() for, in order
ExpiredFiles(listing, cutoffDate) ==
  IF listing = <<>> THEN <<>>
  ELSE (IF Expired(Head(listing), cutoffDate) THEN <<Head(listing)>> ELSE <<>>)
         \o ExpiredFiles(Tail(listing), cutoffDate)

\* What cleanupOldBackups() returns after its loop: the override of
\* GDriveUploader only logs the count, BaseUploader returns it.
CleanupReturn(u, deletedCount) ==
  IF u.type = "gdrive" THEN Undefined ELSE Some(deletedCount)

\* Variant of CleanupOldBackupsOf: a deleteFile() that fails is passed over
\* and the loop goes on; the error is thrown when the loop has ended.
CleanupOldBackupsKeepGoing(u, list, retentionDays, failAt, error) ==
  IF ~list.ok
  THEN [ok |-> FALSE, error |-> list.error, ret |-> Undefined,
        deleted |-> <<>>, remoteOps |-> list.remoteOps]
  ELSE IF Len(list.listing) = 0
  THEN [ok |-> TRUE, error |-> <<>>, ret |-> Undefined, deleted |-> <<>>,
        remoteOps |-> list.remoteOps]
  ELSE LET old == ExpiredFiles(list.listing, Cutoff(Now, retentionDays))
       IN IF failAt \in 1..Len(old)
          THEN [ok |-> FALSE,
                error |-> DeleteFile(u, [ok |-> FALSE, error |-> error]).error,
                ret |-> Undefined,
                deleted |-> SubSeq(old, 1, failAt - 1)
                              \o SubSeq(old, failAt + 1, Len(old)),
                remoteOps |-> list.remoteOps + Len(old)]
          ELSE [ok |-> TRUE, error |-> <<>>,
                ret |-> CleanupReturn(u, Len(old)), deleted |-> old,
                remoteOps |-> list.remoteOps + Len(old)]

\* cleanupOldBackups(remotePath, retentionDays): list is the result of
\* listFiles(); failAt = 0 when every deleteFile() succeeds, and j when the
\* j-th one fails with error.  The result is [ok, error, ret, deleted,
\* remoteOps], deleted being the files deleted before the call ended.
CleanupOldBackupsOf(u, list, retentionDays, failAt, error) ==
  IF ~list.ok
  THEN [ok |-> FALSE, error |-> list.error, ret |-> Undefined,
        deleted |-> <<>>, remoteOps |-> list.remoteOps]
  ELSE IF Len(list.listing) = 0
  THEN [ok |-> TRUE, error |-> <<>>, ret |-> Undefined, deleted |-> <<>>,
        remoteOps |-> list.remoteOps]
  ELSE LET old == ExpiredFiles(list.listing, Cutoff(Now, retentionDays))
       IN IF failAt \in 1..Len(old)
          THEN [ok |-> FALSE,
                error |-> DeleteFile(u, [ok |-> FALSE, error |-> error]).error,
                ret |-> Undefined, deleted |-> SubSeq(old, 1, failAt - 1),
                remoteOps |-> list.remoteOps + failAt]
          ELSE [ok |-> TRUE, error |-> <<>>,
                ret |-> CleanupReturn(u, Len(old)), deleted |-> old,
                remoteOps |-> list.remoteOps + Len(old)]

\* backup.js, cleanup loop: if (deletedCount > 0) log(`Deleted
\* ${deletedCount} ...`) else log('No old backups to delete ...'): the
\* number of deletions the run reports
ReportedDeletions(deletedCount) ==
  IF deletedCount /= Undefined /\ deletedCount[1] > 0 THEN deletedCount[1]
  ELSE 0

(***************************************************************************)
(* utils.js                                                                *)
(***************************************************************************)
\* retry(): if (attempt < maxRetries)
HasNextAttempt(a, maxRetries) == a < maxRetries

\* retry(): attempts remain after a failure of attempt a, maxRetries being
\* left to its default
RetryHasNext(a) == HasNextAttempt(a, MaxRetries)

\* the parameters of retry() after their defaults have been applied
MaxRetriesOf(args) ==
  IF args.maxRetries = Undefined THEN MaxRetries ELSE args.maxRetries[1]

InitialDelayOf(args) ==
  IF args.initialDelay = Undefined THEN DefaultInitialDelay
  ELSE args.initialDelay[1]

\* Variant of Delay: the wait grows linearly with the attempt.
DelayLinear(initialDelay, a) == initialDelay * (a + 1)

\* const delay = initialDelay * Math.pow(2, attempt)
Delay(initialDelay, a) == initialDelay * 2^a

\* What fn may throw or reject with: an Error, a bare string, null.
Thrown ==
  { [kind |-> "Error",  message |-> Some("e1")],
    [kind |-> "Error",  message |-> Some("e2")],
    [kind |-> "string", message |-> Undefined],
    [kind |-> "null",   message |-> Undefined] }

\* the value fn resolves with
FnValue == <<"value">>

\* error.message: reading a property of null or undefined throws TypeError
MessageOf(error) ==
  IF error.kind = "null"
  THEN Err(<<"TypeError", "Cannot read properties of null">>)
  ELSE Ok(error.message)

\* `${v}` for a slot that holds a string
Interpolate(v) == IF v = Undefined THEN "undefined" ELSE v[1]

\* throw new Error(`Failed after ${maxRetries + 1} attempts:
\* ${lastError.message}`)
FailedAfter(maxRetries, error) ==
  LET m == MessageOf(error)
  IN IF m.ok
     THEN Err(<<"Failed after ", ToString(maxRetries + 1), " attempts: ",
                Interpolate(m.val)>>)
     ELSE m

\* generateTimestampFilename(prefix): prefix, the clock second, "tar.gz"
GenerateTimestampFilename(kind, base, now) ==
  [kind |-> kind, base |-> base, ts |-> now]

\* path.join(localBackupDir, name)
Path(name) == <<"backups", name>>

\* `${dbName}.dump`
DumpFileName(db) == [kind |-> "dump", base |-> db.base, ts |-> 0]

(***************************************************************************)
(* backup.js: runBackup()                                                  *)
(***************************************************************************)
\* const allBackups = [...folderBackups, ...dbBackups]
allBackups == folderBackups \o dbBackups

\* Variant of FatalExit: the error is logged and the failed step is run
\* again, the process staying alive.
FatalExitRunAgain == UNCHANGED <<pc, exitCode>>

\* catch (error) { ...; process.exit(1) } of runBackup()
FatalExit == pc' = "done" /\ exitCode' = Some(1)

\* An 'error' event no listener takes: Node throws it as an uncaught
\* exception and ends the process with exit code 1.  No catch block of
\* runBackup() is run and nothing more is logged by it.
UnhandledErrorExit == pc' = "done" /\ exitCode' = Some(1)

\* Variant of PhaseOrder: uploaders are initialized lazily, right before the
\* first upload instead of before the archival work.
PhaseOrderLazyInit ==
  <<"loadConfig", "loadBackupTargets", "createUploaders", "folders",
    "databases", "initialize", "uploadBegin", "localCleanup", "cleanup",
    "report">>

\* Variant of PhaseOrder: the target list is read lazily, after the
\* uploaders have been created and initialized.
PhaseOrderLazyTargets ==
  <<"loadConfig", "createUploaders", "initialize", "loadBackupTargets",
    "folders", "databases", "uploadBegin", "localCleanup", "cleanup",
    "report">>

\* Variant of PhaseOrder: retention cleanup runs before the uploads.
PhaseOrderCleanupFirst ==
  <<"loadConfig", "loadBackupTargets", "createUploaders", "initialize",
    "folders", "databases", "cleanup", "uploadBegin", "localCleanup",
    "report">>

\* The phases of runBackup(), in the order of its statements.
PhaseOrder ==
  <<"loadConfig", "loadBackupTargets", "createUploaders", "initialize",
    "folders", "databases", "uploadBegin", "localCleanup", "cleanup",
    "report">>

\* the phase whose statements follow those of phase p
NextPhase(p) ==
  LET n == CHOOSE m \in 1..Len(PhaseOrder) : PhaseOrder[m] = p
  IN IF n < Len(PhaseOrder) THEN PhaseOrder[n + 1] ELSE "report"

\* the array a phase loops over; a phase that is no loop runs once
LoopLength(p, fs, dbs, ups) ==
  CASE p \in {"initialize", "uploadBegin", "cleanup"} -> Len(ups)
    [] p = "folders" -> Len(fs)
    [] p = "databases" -> Len(dbs)
    [] OTHER -> 1

RECURSIVE Enter(_, _, _, _)
\* Where the run continues when control reaches phase p: <<pc, k>>.  A for
\* loop over an empty array is skipped.
Enter(p, fs, dbs, ups) ==
  IF p /= "report" /\ LoopLength(p, fs, dbs, ups) = 0
  THEN Enter(NextPhase(p), fs, dbs, ups)
  ELSE <<p, 1>>

\* after iteration n of the loop of phase p
AfterIteration(p, n) ==
  IF n < LoopLength(p, folders, databases, uploaders)
  THEN <<p, n + 1>>
  ELSE Enter(NextPhase(p), folders, databases, uploaders)

Goto(pos) == pc' = pos[1] /\ k' = pos[2]

\* new Date() when a file name is generated: the second of the previous
\* name if no backoff sleep has ended since, or a later second
NowSeconds == IF stamped THEN {clock, clock + 1} ELSE {clock + 1}

\* The clock after an awaited call: named says that the call began by
\* generating a name in second now, slept that a backoff sleep (a second or
\* more) followed it.
Elapse(named, now, slept) ==
  /\ clock' = IF named THEN now ELSE clock
  /\ stamped' = IF slept THEN FALSE ELSE (named \/ stamped)

(*--------------------------- 1. configuration ---------------------------*)
\* const appConfig = config.loadConfig(), .config being one of docs
LoadConfigFrom(docs) ==
  /\ UNCHANGED <<retryVars, uploaderVars, deliveryVars, parseVars>>
  /\ pc = "loadConfig"
  /\ \E doc \in docs :
       LET r == loadConfig(doc)
       IN IF r.ok
          THEN /\ appConfig' = r.val
               /\ configDoc' = Some(doc)
               /\ Goto(Enter(NextPhase("loadConfig"), folders, databases,
                             uploaders))
               /\ UNCHANGED <<exitCode, fatalAt, fatalError>>
          ELSE /\ FatalExit
               /\ fatalAt' = "loadConfig"
               /\ fatalError' = r.val
               /\ configDoc' = Some(doc)
               /\ UNCHANGED <<appConfig, k>>
  /\ UNCHANGED <<folders, databases, uploaders, i, stage, attempt,
                 archiveName, clock, stamped, folderBackups, dbBackups,
                 localFiles, uploadSuccessCount, uploadFailCount,
                 folderResult, dbResult, uploadResult, cleanupCalls,
                 cleanupResult, invoked, printed, removed>>

\* const appConfig = config.loadConfig() of a whole run
LoadConfig == LoadConfigFrom(RunConfigDocs)

\* Config.ensureLocalBackupDir(): the directory is there or is made, or
\* fs.mkdirSync() throws because a file stands in its way
EnsureLocalBackupDirOutcomes == {"ok", "ENOTDIR: not a directory, mkdir"}

\* const { folders, databases } = config.loadBackupTargets();
\* const localBackupDir = config.ensureLocalBackupDir()
LoadBackupTargets ==
  /\ UNCHANGED <<retryVars, uploaderVars, deliveryVars, parseVars>>
  /\ pc = "loadBackupTargets"
  /\ \E file \in BackupFiles, dir \in EnsureLocalBackupDirOutcomes :
       LET r == loadBackupTargets(file)
       IN IF r.ok
          THEN /\ folders' = r.val.folders
               /\ databases' = r.val.databases
               /\ folderResult' = [n \in 1..Len(r.val.folders) |-> "none"]
               /\ dbResult' = [n \in 1..Len(r.val.databases) |-> "none"]
               /\ IF dir = "ok"
                  THEN /\ Goto(Enter(NextPhase("loadBackupTargets"),
                                     r.val.folders, r.val.databases,
                                     uploaders))
                       /\ UNCHANGED <<exitCode, fatalAt, fatalError>>
                  ELSE /\ FatalExit
                       /\ fatalAt' = "ensureLocalBackupDir"
                       /\ fatalError' = <<dir>>
                       /\ UNCHANGED k
          ELSE /\ FatalExit
               /\ fatalAt' = "loadBackupTargets"
               /\ fatalError' = r.val
               /\ UNCHANGED <<folders, databases, folderResult, dbResult, k>>
  /\ UNCHANGED <<configDoc, appConfig, uploaders, i, stage, attempt, archiveName,
                 clock, stamped, folderBackups, dbBackups, localFiles,
                 uploadSuccessCount, uploadFailCount, uploadResult,
                 cleanupCalls, cleanupResult, invoked, printed, removed>>

(*--------------------------- 2. uploaders -------------------------------*)
\* const uploaders = UploaderFactory.createFromConfig(appConfig.uploaders)
CreateUploaders ==
  /\ UNCHANGED <<retryVars, uploaderVars, deliveryVars, parseVars>>
  /\ pc = "createUploaders"
  /\ LET r == CreateFromConfig(appConfig.uploaders)
     IN IF r.ok
        THEN /\ uploaders' = r.val
             /\ uploadResult' = [n \in 1..Len(r.val) |-> <<>>]
             /\ cleanupCalls' = [n \in 1..Len(r.val) |-> 0]
             /\ cleanupResult' = [n \in 1..Len(r.val) |-> "none"]
             /\ Goto(Enter(NextPhase("createUploaders"), folders, databases,
                           r.val))
             /\ UNCHANGED <<exitCode, fatalAt, fatalError>>
        ELSE /\ FatalExit
             /\ fatalAt' = "createFromConfig"
             /\ fatalError' = r.val
             /\ UNCHANGED <<uploaders, uploadResult, cleanupCalls,
                            cleanupResult, k>>
  /\ UNCHANGED <<configDoc, appConfig, folders, databases, i, stage, attempt,
                 archiveName, clock, stamped, folderBackups, dbBackups,
                 localFiles, uploadSuccessCount, uploadFailCount,
                 folderResult, dbResult, invoked, printed, removed>>

\* await uploader.initialize(): the environment decides whether the tool,
\* the remote and the credentials are there
Initialize ==
  /\ UNCHANGED <<retryVars, uploaderVars, deliveryVars, parseVars>>
  /\ pc = "initialize"
  /\ invoked' = invoked \cup {"initialize"}
  /\ \E outcome \in {"ok", "ConnectionError"} :
       IF outcome = "ok"
       THEN /\ uploaders' = [uploaders EXCEPT ![k].initialized = TRUE]
            /\ pc' = "testConnection"
            /\ UNCHANGED <<exitCode, fatalAt, fatalError>>
       ELSE /\ FatalExit
            /\ fatalAt' = "initialize"
            /\ fatalError' = <<outcome>>
            /\ UNCHANGED uploaders
  /\ UNCHANGED <<configDoc, appConfig, folders, databases, k, i, stage, attempt,
                 archiveName, clock, stamped, folderBackups, dbBackups,
                 localFiles, uploadSuccessCount, uploadFailCount,
                 folderResult, dbResult, uploadResult, cleanupCalls,
                 cleanupResult, printed, removed>>

\* uploader.testConnection(): throws before any remote call when the
\* uploader is not initialized
TestConnectionOutcomes(u) ==
  IF ~u.initialized THEN {"NotInitialized"} ELSE {"ok", "ConnectionError"}

\* await uploader.testConnection()
TestConnection ==
  /\ UNCHANGED <<retryVars, uploaderVars, deliveryVars, parseVars>>
  /\ pc = "testConnection"
  /\ invoked' = invoked \cup {"testConnection"}
  /\ \E outcome \in TestConnectionOutcomes(uploaders[k]) :
       IF outcome = "ok"
       THEN /\ IF k < Len(uploaders)
               THEN pc' = "initialize" /\ k' = k + 1
               ELSE Goto(AfterIteration("initialize", k))
            /\ UNCHANGED <<exitCode, fatalAt, fatalError>>
       ELSE /\ FatalExit
            /\ fatalAt' = "testConnection"
            /\ fatalError' = <<outcome>>
            /\ UNCHANGED k
  /\ UNCHANGED <<configDoc, appConfig, folders, databases, uploaders, i, stage, attempt,
                 archiveName, clock, stamped, folderBackups, dbBackups,
                 localFiles, uploadSuccessCount, uploadFailCount,
                 folderResult, dbResult, uploadResult, cleanupCalls,
                 cleanupResult, printed, removed>>

(*--------------------------- 3. folders ---------------------------------*)
\* compressFolder(sourcePath, outputPath): rejects when the source is not
\* an existing directory; otherwise the archiver succeeds or emits 'error',
\* which rejects, or fs.createWriteStream(outputPath) cannot open the file
\* and emits 'error', which no listener takes: the promise never settles
CompressFolderOutcomes(folder) ==
  IF ~folder.exists THEN {"Source path does not exist"}
  ELSE {"ok", "archiver error", "Unhandled 'error' event"}

\* The files the backup directory may hold after one compress call: the
\* output file is there as soon as the stream has opened it.  An unhandled
\* stream error comes either from the open (ENOTDIR, EISDIR: no file) or
\* from a write to the opened file (EFBIG, ENOSPC: the file stays).
AfterCompress(outcome, name) ==
  IF outcome \in {"ok", "archiver error"}
  THEN {localFiles \cup {Path(name)}}
  ELSE {localFiles, localFiles \cup {Path(name)}}

\* const archiveName = generateTimestampFilename(`folder-${folderName}`),
\* computed once, before retry() makes its first attempt
FolderArchiveName(now) ==
  IF attempt = 0
  THEN GenerateTimestampFilename("folder", folders[k].base, now)
  ELSE archiveName

\* Variant of FolderCatch: the folder loop has no try/catch of its own, so
\* the error of retry() reaches the outer catch of runBackup().
FolderCatchRethrow ==
  /\ folderResult' = [folderResult EXCEPT ![k] = "fail"]
  /\ FatalExit
  /\ fatalAt' = "compressFolder"
  /\ fatalError' = <<"Failed after attempts">>
  /\ UNCHANGED k

\* catch (error) { log(`Failed to backup folder ...`) } of the folder loop
FolderCatch ==
  /\ folderResult' = [folderResult EXCEPT ![k] = "fail"]
  /\ Goto(AfterIteration("folders", k))
  /\ UNCHANGED <<exitCode, fatalAt, fatalError>>

\* one attempt of  await retry(async () => { await compressFolder(...) })
CompressFolder ==
  /\ UNCHANGED <<retryVars, uploaderVars, deliveryVars, parseVars>>
  /\ pc = "folders"
  /\ invoked' = invoked \cup {"compressFolder"}
  /\ \E outcome \in CompressFolderOutcomes(folders[k]), now \in NowSeconds :
       LET name == FolderArchiveName(now)
       IN /\ localFiles' \in AfterCompress(outcome, name)
          /\ IF outcome = "Unhandled 'error' event"
             THEN /\ UnhandledErrorExit
                  /\ archiveName' = name
                  /\ Elapse(attempt = 0, now, FALSE)
                  /\ UNCHANGED <<k, attempt, folderBackups, folderResult,
                                 fatalAt, fatalError>>
             ELSE IF outcome = "ok"
             THEN /\ folderBackups' =
                       Append(folderBackups, [path |-> Path(name), name |-> name])
                  /\ folderResult' = [folderResult EXCEPT ![k] = "ok"]
                  /\ Goto(AfterIteration("folders", k))
                  /\ attempt' = 0
                  /\ archiveName' = NoName
                  /\ Elapse(attempt = 0, now, FALSE)
                  /\ UNCHANGED <<exitCode, fatalAt, fatalError>>
             ELSE IF RetryHasNext(attempt)
             THEN \* followed by await sleep(delay)
                  /\ attempt' = attempt + 1
                  /\ archiveName' = name
                  /\ Elapse(attempt = 0, now, TRUE)
                  /\ UNCHANGED <<pc, k, folderBackups, folderResult,
                                 exitCode, fatalAt, fatalError>>
             ELSE \* throw new Error(`Failed after ... attempts`)
                  /\ FolderCatch
                  /\ attempt' = 0
                  /\ archiveName' = NoName
                  /\ Elapse(attempt = 0, now, FALSE)
                  /\ UNCHANGED folderBackups
  /\ UNCHANGED <<configDoc, appConfig, folders, databases, uploaders, i, stage,
                 dbBackups, uploadSuccessCount, uploadFailCount, dbResult,
                 uploadResult, cleanupCalls, cleanupResult, printed, removed>>

(*--------------------------- 4. databases -------------------------------*)
\* createDatabaseDump(connectionString, outputPath): pg_dump writes the
\* dump file or fails
CreateDatabaseDumpOutcomes(db) == {"ok", "PostgreSQL backup failed"}

\* Whether the dump file is on disk when createDatabaseDump() ends: it is
\* when the call returns; when the call throws, pg_dump -f may have made
\* (part of) the file before it failed, and nothing deletes it.
DumpWritten(outcome) == IF outcome = "ok" THEN {TRUE} ELSE {TRUE, FALSE}

\* compressDatabaseDump(dumpFilePath, outputPath): as compressFolder, the
\* output stream has no 'error' listener
CompressDatabaseDumpOutcomes(dumpPath) ==
  IF dumpPath \notin localFiles THEN {"Dump file does not exist"}
  ELSE {"ok", "archiver error", "Unhandled 'error' event"}

\* const archiveName = generateTimestampFilename(`db-${dbName}`), computed
\* after the dump, before retry() makes its first compress attempt
DatabaseArchiveName(now) ==
  IF attempt = 0
  THEN GenerateTimestampFilename("db", databases[k].base, now)
  ELSE archiveName

\* catch (error) { log(`Failed to backup database: ...`) } of the db loop
DatabaseCatch ==
  /\ dbResult' = [dbResult EXCEPT ![k] = "fail"]
  /\ Goto(AfterIteration("databases", k))
  /\ stage' = "dump"
  /\ UNCHANGED <<exitCode, fatalAt, fatalError>>

\* one attempt of  await retry(async () => { await createDatabaseDump(...) })
CreateDatabaseDump ==
  /\ UNCHANGED <<retryVars, uploaderVars, deliveryVars, parseVars>>
  /\ pc = "databases"
  /\ stage = "dump"
  /\ invoked' = invoked \cup {"createDatabaseDump"}
  /\ \E outcome \in CreateDatabaseDumpOutcomes(databases[k]) :
     \E written \in DumpWritten(outcome) :
       /\ localFiles' = IF written
                        THEN localFiles \cup {Path(DumpFileName(databases[k]))}
                        ELSE localFiles
       /\ IF outcome = "ok"
          THEN /\ stage' = "compress"
               /\ attempt' = 0
               /\ Elapse(FALSE, clock, FALSE)
               /\ UNCHANGED <<pc, k, dbResult, exitCode, fatalAt, fatalError>>
          ELSE IF RetryHasNext(attempt)
          THEN /\ attempt' = attempt + 1
               /\ Elapse(FALSE, clock, TRUE)
               /\ UNCHANGED <<pc, k, stage, dbResult, exitCode, fatalAt,
                              fatalError>>
          ELSE /\ DatabaseCatch
               /\ attempt' = 0
               /\ Elapse(FALSE, clock, FALSE)
  /\ UNCHANGED <<configDoc, appConfig, folders, databases, uploaders, i, archiveName,
                 folderBackups, dbBackups, uploadSuccessCount,
                 uploadFailCount, folderResult, uploadResult, cleanupCalls,
                 cleanupResult, printed, removed>>

\* one attempt of  await retry(async () => { await compressDatabaseDump(...) })
\* and, when it succeeds, fs.unlinkSync(dumpPath); dbBackups.push(...)
CompressDatabaseDump ==
  /\ UNCHANGED <<retryVars, uploaderVars, deliveryVars, parseVars>>
  /\ pc = "databases"
  /\ stage = "compress"
  /\ invoked' = invoked \cup {"compressDatabaseDump"}
  /\ \E now \in NowSeconds :
     LET name == DatabaseArchiveName(now)
         dumpPath == Path(DumpFileName(databases[k]))
     IN \E outcome \in CompressDatabaseDumpOutcomes(dumpPath) :
          IF outcome = "Unhandled 'error' event"
          THEN /\ UnhandledErrorExit
               /\ localFiles' \in AfterCompress(outcome, name)
               /\ archiveName' = name
               /\ Elapse(attempt = 0, now, FALSE)
               /\ UNCHANGED <<k, stage, attempt, dbBackups, dbResult,
                              fatalAt, fatalError>>
          ELSE IF outcome = "ok"
          THEN /\ localFiles' \in {files \ {dumpPath} :
                                  files \in AfterCompress(outcome, name)}
               /\ dbBackups' =
                    Append(dbBackups, [path |-> Path(name), name |-> name])
               /\ dbResult' = [dbResult EXCEPT ![k] = "ok"]
               /\ Goto(AfterIteration("databases", k))
               /\ stage' = "dump"
               /\ attempt' = 0
               /\ archiveName' = NoName
               /\ Elapse(attempt = 0, now, FALSE)
               /\ UNCHANGED <<exitCode, fatalAt, fatalError>>
          ELSE IF RetryHasNext(attempt)
          THEN /\ localFiles' \in AfterCompress(outcome, name)
               /\ attempt' = attempt + 1
               /\ archiveName' = name
               /\ Elapse(attempt = 0, now, TRUE)
               /\ UNCHANGED <<pc, k, stage, dbBackups, dbResult, exitCode,
                              fatalAt, fatalError>>
          ELSE /\ DatabaseCatch
               /\ localFiles' \in AfterCompress(outcome, name)
               /\ attempt' = 0
               /\ archiveName' = NoName
               /\ Elapse(attempt = 0, now, FALSE)
               /\ UNCHANGED dbBackups
  /\ UNCHANGED <<configDoc, appConfig, folders, databases, uploaders, i, folderBackups,
                 uploadSuccessCount, uploadFailCount, folderResult,
                 uploadResult, cleanupCalls, cleanupResult, printed, removed>>

(*--------------------------- 5. upload ----------------------------------*)
\* const remotePath = uploader.config?.folder_path ||
\*                    uploader.config?.prefix || ''
RemotePath(u) ==
  IF u.config = Undefined THEN ""
  ELSE IF ~FalsyStr(u.config[1].folder_path) THEN u.config[1].folder_path[1]
  ELSE IF ~FalsyStr(u.config[1].prefix) THEN u.config[1].prefix[1]
  ELSE ""

\* uploader.uploadFile(filePath, remotePath, fileName)
UploadFileOutcomes(u, filePath) == UploadOutcomes(u, filePath \in localFiles)

\* for (let i = 0; i < allBackups.length; i++): after iteration n
AfterUpload(n) ==
  IF n < Len(allBackups) THEN <<"upload", n + 1>> ELSE <<"uploadEnd", 0>>

\* for (const uploader of uploaders) {  let uploadSuccessCount = 0;
\* let uploadFailCount = 0;  const remotePath = ...
UploadBegin ==
  /\ UNCHANGED <<retryVars, uploaderVars, deliveryVars, parseVars>>
  /\ pc = "uploadBegin"
  /\ uploadSuccessCount' = Some(0)
  /\ uploadFailCount' = Some(0)
  /\ attempt' = 0
  /\ IF Len(allBackups) > 0
     THEN pc' = "upload" /\ i' = 1
     ELSE pc' = "uploadEnd" /\ i' = 0
  /\ UNCHANGED <<configDoc, appConfig, folders, databases, uploaders, k, stage,
                 archiveName, clock, stamped, folderBackups, dbBackups,
                 localFiles, folderResult, dbResult, uploadResult,
                 cleanupCalls, cleanupResult, fatalAt, fatalError, invoked, printed,
                 removed, exitCode>>

\* Variant of UploadCatch: a failed upload ends the inner loop (break), so
\* the remaining archives are not offered to this uploader.
UploadCatchBreak ==
  /\ uploadFailCount' = Some(uploadFailCount[1] + 1)
  /\ uploadResult' = [uploadResult EXCEPT ![k] = Append(@, "fail")]
  /\ pc' = "uploadEnd"
  /\ i' = 0
  /\ UNCHANGED <<k, uploadSuccessCount, exitCode, fatalAt, fatalError>>

\* Variant of UploadCatch: the archives are uploaded together
\* (Promise.all), so one failure ends every upload still in flight.
UploadCatchAll ==
  LET rest == Len(allBackups) - Len(uploadResult[k])
  IN /\ uploadFailCount' = Some(uploadFailCount[1] + rest)
     /\ uploadResult' =
          [uploadResult EXCEPT ![k] = @ \o [n \in 1..rest |-> "fail"]]
     /\ pc' = "uploadEnd"
     /\ i' = 0
     /\ UNCHANGED <<k, uploadSuccessCount, exitCode, fatalAt, fatalError>>

\* catch (error) { log(`Failed to upload ...`); uploadFailCount++ }
UploadCatch ==
  /\ uploadFailCount' = Some(uploadFailCount[1] + 1)
  /\ uploadResult' = [uploadResult EXCEPT ![k] = Append(@, "fail")]
  /\ pc' = AfterUpload(i)[1]
  /\ i' = AfterUpload(i)[2]
  /\ UNCHANGED <<k, uploadSuccessCount, exitCode, fatalAt, fatalError>>

\* what runBackup() does with the outcome of one attempt of
\* await retry(async () => { await uploader.uploadFile(...) })
UploadAttempt(outcome) ==
  /\ pc = "upload"
  /\ invoked' = invoked \cup {"uploadFile"}
  /\ IF outcome = "ok"
     THEN /\ uploadSuccessCount' = Some(uploadSuccessCount[1] + 1)
          /\ uploadResult' = [uploadResult EXCEPT ![k] = Append(@, "ok")]
          /\ pc' = AfterUpload(i)[1]
          /\ i' = AfterUpload(i)[2]
          /\ attempt' = 0
          /\ UNCHANGED <<k, uploadFailCount, exitCode, fatalAt, fatalError>>
     ELSE IF RetryHasNext(attempt)
     THEN /\ attempt' = attempt + 1
          /\ UNCHANGED <<pc, k, i, uploadSuccessCount, uploadFailCount,
                         uploadResult, exitCode, fatalAt, fatalError>>
     ELSE /\ UploadCatch
          /\ attempt' = 0
  /\ UNCHANGED <<configDoc, appConfig, folders, databases, uploaders, stage,
                 archiveName, clock, stamped, folderBackups, dbBackups,
                 localFiles, folderResult, dbResult, cleanupCalls,
                 cleanupResult, printed, removed>>

\* one attempt of  await retry(async () => { await uploader.uploadFile(...) })
UploadFile ==
  /\ UNCHANGED <<retryVars, uploaderVars, deliveryVars, parseVars>>
  /\ pc = "upload"
  /\ \E outcome \in UploadFileOutcomes(uploaders[k], allBackups[i].path) :
       UploadAttempt(outcome)

\* log(`... upload summary: ...`) }  -- the block ends, and with it the
\* scope of the two counters
UploadEnd ==
  /\ UNCHANGED <<retryVars, uploaderVars, deliveryVars, parseVars>>
  /\ pc = "uploadEnd"
  /\ uploadSuccessCount' = Undeclared
  /\ uploadFailCount' = Undeclared
  /\ Goto(AfterIteration("uploadBegin", k))
  /\ UNCHANGED <<configDoc, appConfig, folders, databases, uploaders, i, stage, attempt,
                 archiveName, clock, stamped, folderBackups, dbBackups,
                 localFiles, folderResult, dbResult, uploadResult,
                 cleanupCalls, cleanupResult, fatalAt, fatalError, invoked, printed,
                 removed, exitCode>>

RECURSIVE UnlinkEach(_, _, _)
\* for (const backup of allBackups) { try { fs.unlinkSync(backup.path) ... }
\* catch { warn } }: <<files left, number of "Removed:" lines>>
UnlinkEach(backups, files, count) ==
  IF backups = <<>> THEN <<files, count>>
  ELSE IF Head(backups).path \in files
       THEN UnlinkEach(Tail(backups), files \ {Head(backups).path}, count + 1)
       ELSE UnlinkEach(Tail(backups), files, count)

\* log('Cleaning up local backup files...') and the loop after it
RemoveLocalBackups ==
  /\ UNCHANGED <<retryVars, uploaderVars, deliveryVars, parseVars>>
  /\ pc = "localCleanup"
  /\ LET r == UnlinkEach(allBackups, localFiles, 0)
     IN localFiles' = r[1] /\ removed' = r[2]
  /\ Goto(AfterIteration("localCleanup", 1))
  /\ UNCHANGED <<configDoc, appConfig, folders, databases, uploaders, i, stage, attempt,
                 archiveName, clock, stamped, folderBackups, dbBackups,
                 uploadSuccessCount, uploadFailCount, folderResult, dbResult,
                 uploadResult, cleanupCalls, cleanupResult, fatalAt, fatalError, invoked,
                 printed, exitCode>>

(*--------------------------- 6. retention cleanup -----------------------*)
\* uploader.cleanupOldBackups(remotePath, retentionDays): listFiles() throws
\* when the uploader is not initialized; listing or a delete may fail
CleanupOldBackupsOutcomes(u) ==
  IF ~u.initialized THEN {"NotInitialized"} ELSE {"ok", "ListOrDeleteError"}

\* Variant of CleanupCatch: the cleanup loop has no try/catch of its own, so
\* a cleanup error reaches the outer catch of runBackup().
CleanupCatchRethrow ==
  /\ cleanupResult' = [cleanupResult EXCEPT ![k] = "fail"]
  /\ FatalExit
  /\ fatalAt' = "cleanupOldBackups"
  /\ fatalError' = <<"cleanup failed">>
  /\ UNCHANGED k

\* catch (error) { log(`  Cleanup failed for ...`) }
CleanupCatch ==
  /\ cleanupResult' = [cleanupResult EXCEPT ![k] = "fail"]
  /\ Goto(AfterIteration("cleanup", k))
  /\ UNCHANGED <<exitCode, fatalAt, fatalError>>

\* what one iteration of the cleanup loop does with the outcome of
\* await uploader.cleanupOldBackups(remotePath, appConfig.retention_days)
CleanupIteration(outcome) ==
  /\ pc = "cleanup"
  /\ invoked' = invoked \cup {"cleanupOldBackups"}
  /\ cleanupCalls' = [cleanupCalls EXCEPT ![k] = @ + 1]
  /\ IF outcome = "ok"
     THEN /\ cleanupResult' = [cleanupResult EXCEPT ![k] = "ok"]
          /\ Goto(AfterIteration("cleanup", k))
          /\ UNCHANGED <<exitCode, fatalAt, fatalError>>
     ELSE CleanupCatch
  /\ UNCHANGED <<configDoc, appConfig, folders, databases, uploaders, i,
                 stage, attempt, archiveName, clock, stamped, folderBackups,
                 dbBackups, localFiles, uploadSuccessCount, uploadFailCount,
                 folderResult, dbResult, uploadResult, printed, removed>>

\* one iteration of the cleanup loop
CleanupOldBackups ==
  /\ UNCHANGED <<retryVars, uploaderVars, deliveryVars, parseVars>>
  /\ pc = "cleanup"
  /\ \E outcome \in CleanupOldBackupsOutcomes(uploaders[k]) :
       CleanupIteration(outcome)

(*--------------------------- 7. report ----------------------------------*)
\* The lines of the summary that are printed before an identifier that is
\* not in scope is read.
SummaryPrinted ==
  {"completed", "duration"}
    \cup (IF uploadSuccessCount = Undeclared THEN {}
          ELSE {"successful"}
                 \cup (IF uploadFailCount = Undeclared THEN {} ELSE {"failed"}))

\* log('Backup process completed!') ... if (uploadFailCount > 0)
\* process.exit(1).  Reading an undeclared identifier throws ReferenceError,
\* which the outer catch turns into exit code 1.
Report ==
  /\ UNCHANGED <<retryVars, uploaderVars, deliveryVars, parseVars>>
  /\ pc = "report"
  /\ printed' = SummaryPrinted
  /\ pc' = "done"
  /\ IF uploadSuccessCount = Undeclared \/ uploadFailCount = Undeclared
     THEN /\ exitCode' = Some(1)
          /\ fatalAt' = "report"
          /\ fatalError' = <<"uploadSuccessCount", "is not defined">>
     ELSE /\ exitCode' = IF uploadFailCount[1] > 0 THEN Some(1) ELSE Some(0)
          /\ UNCHANGED <<fatalAt, fatalError>>
  /\ UNCHANGED <<configDoc, appConfig, folders, databases, uploaders, k, i, stage,
                 attempt, archiveName, clock, stamped, folderBackups,
                 dbBackups, localFiles, uploadSuccessCount, uploadFailCount,
                 folderResult, dbResult, uploadResult, cleanupCalls,
                 cleanupResult, invoked, removed>>

Next ==
  \/ LoadConfig
  \/ LoadBackupTargets
  \/ CreateUploaders
  \/ Initialize
  \/ TestConnection
  \/ CompressFolder
  \/ CreateDatabaseDump
  \/ CompressDatabaseDump
  \/ UploadBegin
  \/ UploadFile
  \/ UploadEnd
  \/ RemoveLocalBackups
  \/ CleanupOldBackups
  \/ Report

Spec == Init /\ [][Next]_vars

(***************************************************************************)
(* The earlier runBackup(), with Google Drive as its single destination:   *)
(* its upload loop and its exit, as a function of the outcome of each      *)
(* retry-wrapped upload.                                                   *)
(***************************************************************************)
RECURSIVE SingleDestinationUploads(_, _, _)
\* for (let i = 0; i < allBackups.length; i++) { try { await retry(upload);
\* uploadSuccessCount++; fs.unlinkSync(backup.path) } catch {
\* uploadFailCount++ } }
\* The outcome of an upload is "ok", "fail", or "ok, archive gone": the
\* upload succeeded and the local archive was removed meanwhile.
\* fs.unlinkSync() stands inside the try: when the archive is not there it
\* throws (ENOENT) and the catch counts a failure for the uploaded archive.
SingleDestinationUploads(backups, outcomes, acc) ==
  IF backups = <<>> THEN acc
  ELSE SingleDestinationUploads(
         Tail(backups), Tail(outcomes),
         IF Head(outcomes) = "fail"
         THEN [acc EXCEPT !.uploadFailCount = @ + 1]
         ELSE IF Head(outcomes) = "ok" /\ Head(backups).path \in acc.localFiles
         THEN [acc EXCEPT !.uploaded = Append(@, Head(backups).name),
                          !.localFiles = @ \ {Head(backups).path},
                          !.uploadSuccessCount = @ + 1]
         ELSE [acc EXCEPT !.uploaded = Append(@, Head(backups).name),
                          !.localFiles = @ \ {Head(backups).path},
                          !.uploadSuccessCount = @ + 1,
                          !.uploadFailCount = @ + 1])

\* What the earlier runBackup() leaves once setup and archival are behind:
\* the archives uploaded, the local files, the counts of the summary and
\* the exit code (process.exit(1) if (uploadFailCount > 0), else the
\* process ends with code 0).  A cleanup failure is only logged.
SingleDestinationRun(backups, outcomes, files) ==
  LET r == SingleDestinationUploads(
             backups, outcomes,
             [uploaded |-> <<>>, localFiles |-> files,
              uploadSuccessCount |-> 0, uploadFailCount |-> 0])
  IN [uploaded |-> r.uploaded, localFiles |-> r.localFiles,
      uploadSuccessCount |-> r.uploadSuccessCount,
      uploadFailCount |-> r.uploadFailCount,
      exitCode |-> IF r.uploadFailCount > 0 THEN Some(1) ELSE Some(0)]

(***************************************************************************)
(* A run under fairness: every awaited operation returns or fails, and the *)
(* statements between two awaits run to completion.                        *)
(***************************************************************************)
\* the documents of the runs explored under fairness
LiveConfigDocs ==
  {doc \in RunConfigDocs :
     doc.uploaders /= Undefined => Len(doc.uploaders[1]) <= MaxLiveUploaders}

LiveNext ==
  \/ LoadConfigFrom(LiveConfigDocs)
  \/ LoadBackupTargets
  \/ CreateUploaders
  \/ Initialize
  \/ TestConnection
  \/ CompressFolder
  \/ CreateDatabaseDump
  \/ CompressDatabaseDump
  \/ UploadBegin
  \/ UploadFile
  \/ UploadEnd
  \/ RemoveLocalBackups
  \/ CleanupOldBackups
  \/ Report

LiveSpec == Init /\ [][LiveNext]_vars /\ WF_vars(LiveNext)

(***************************************************************************)
(* The setup of a run on its own: runBackup() up to the first target.      *)
(***************************************************************************)
\* The key prefix of an S3 entry plays no part in the setup: the documents
\* are those whose entries give none.
SetupNext ==
  \/ LoadConfigFrom({doc \in ConfigDocs :
                       doc.uploaders /= Undefined =>
                         \A n \in 1..Len(doc.uploaders[1]) :
                           doc.uploaders[1][n].prefix = Undefined})
  \/ LoadBackupTargets
  \/ CreateUploaders
  \/ Initialize
  \/ TestConnection

SetupSpec == Init /\ [][SetupNext]_vars

(***************************************************************************)
(* config.js: one call of loadBackupTargets() on its own.                  *)
(***************************************************************************)
ParseInit ==
  /\ RunInit
  /\ RetryIdle
  /\ UploaderIdle
  /\ DeliveryIdle
  /\ targetsFile \in BackupFiles
  /\ parsed = Undefined

\* config.loadBackupTargets()
ParseTargets ==
  /\ parsed = Undefined
  /\ parsed' = Some(loadBackupTargets(targetsFile))
  /\ UNCHANGED <<targetsFile, runVars, retryVars, uploaderVars, deliveryVars>>

ParseNext == ParseTargets

ParseSpec == ParseInit /\ [][ParseNext]_vars

(***************************************************************************)
(* utils.js: one call of retry() on its own, fn being any function.        *)
(***************************************************************************)
RetryArgs ==
  [maxRetries   : {Undefined} \cup {Some(n) : n \in 0..MaxRetriesArg},
   initialDelay : {Undefined, Some(250)}]

\* retry(fn, maxRetries, initialDelay) is entered
RetryInit ==
  /\ RunInit
  /\ UploaderIdle
  /\ DeliveryIdle
  /\ ParseIdle
  /\ retryArgs \in RetryArgs
  /\ retryPc = "loop"
  /\ retryAttempt = 0
  /\ lastError = Undefined
  /\ sleeps = <<>>
  /\ fnCalls = 0
  /\ fnFails = 0
  /\ returned = Undefined
  /\ retryTrace = <<>>

\* Variant of CatchTrace: the failure is logged once the sleep is over.
CatchTraceSleepFirst(a, delay) == <<<<"sleep", delay>>, <<"log", a + 1>>>>

\* console.log(`Attempt ${attempt + 1} failed: ...`); console.log(`Retrying
\* in ${delay}ms...`); await sleep(delay): what the catch block of a failed
\* attempt a adds to the trace when another attempt follows
CatchTrace(a, delay) == <<<<"log", a + 1>>, <<"sleep", delay>>>>

\* catch (error) { lastError = error; if (attempt < maxRetries) { ...
\* console.log(`Attempt ... failed: ${error.message}`); await sleep(delay) } }
\* and, when the loop ends with it, the throw after the loop
RetryCatch(error) ==
  /\ lastError' = Some(error)
  /\ fnFails' = fnFails + 1
  /\ IF HasNextAttempt(retryAttempt, MaxRetriesOf(retryArgs))
     THEN IF MessageOf(error).ok
          THEN /\ sleeps' = Append(sleeps, Delay(InitialDelayOf(retryArgs),
                                                 retryAttempt))
               /\ retryTrace' =
                    retryTrace \o CatchTrace(retryAttempt,
                                             Delay(InitialDelayOf(retryArgs),
                                                   retryAttempt))
               /\ retryAttempt' = retryAttempt + 1
               /\ UNCHANGED <<retryPc, returned>>
          ELSE /\ returned' = Some(MessageOf(error))
               /\ retryPc' = "done"
               /\ UNCHANGED <<sleeps, retryTrace, retryAttempt>>
     ELSE /\ returned' = Some(FailedAfter(MaxRetriesOf(retryArgs), error))
          /\ retryPc' = "done"
          /\ retryAttempt' = retryAttempt + 1
          /\ UNCHANGED <<sleeps, retryTrace>>

\* try { return await fn(); }
RetryReturn ==
  /\ returned' = Some(Ok(FnValue))
  /\ retryPc' = "done"
  /\ UNCHANGED <<lastError, fnFails, sleeps, retryTrace, retryAttempt>>

\* one iteration of  for (let attempt = 0; attempt <= maxRetries; attempt++)
RetryAttempt ==
  /\ retryPc = "loop"
  /\ fnCalls' = fnCalls + 1
  /\ \/ RetryReturn
     \/ \E error \in Thrown : RetryCatch(error)
  /\ UNCHANGED <<retryArgs, runVars, uploaderVars, deliveryVars, parseVars>>

RetryNext == RetryAttempt

RetrySpec == RetryInit /\ [][RetryNext]_vars

(***************************************************************************)
(* One uploader on its own: an instance of each class, a remote container  *)
(* with some files in it, and the methods called in any order.             *)
(***************************************************************************)
\* the entries of .config each class is constructed from: the remote is
\* named or left to the default of the class
DestConfigs(type) ==
  {[type |-> Some(type), enabled |-> Some(TRUE),
    bucket |-> IF type = "gdrive" THEN Undefined ELSE Some("bk"),
    folder_path |-> Some("backups"), remote_name |-> r, region |-> Undefined,
    prefix |-> Undefined] :
     r \in IF type = "s3-sdk" THEN {Undefined}
           ELSE {Undefined, Some(""), Some("myremote")}}

\* the remote containers explored: at most MaxRemote files, names distinct
RemoteSets ==
  {S \in SUBSET RemoteFiles :
     \A f, g \in S : f.name = g.name => f = g}

UploaderInit ==
  /\ RunInit
  /\ RetryIdle
  /\ DeliveryIdle
  /\ ParseIdle
  /\ dest \in UNION {{Create(SupportedTypes[n], c).val :
                              c \in DestConfigs(SupportedTypes[n])} :
                           n \in 1..Len(SupportedTypes)}
  /\ remote \in RemoteSets
  /\ lastCall = NoCall

RECURSIVE Orders(_)
\* the orders in which the tool may print the files of the container
Orders(S) ==
  IF S = {} THEN {<<>>}
  ELSE UNION {{<<f>> \o q : q \in Orders(S \ {f})} : f \in S}

\* what the tool prints of the files S: the files in some order, nothing
\* when it fails
ToolOutputOf(tool, S) == IF tool.ok THEN Orders(S) ELSE {<<>>}

Range(q) == {q[j] : j \in DOMAIN q}

\* the outcomes of the listing tool on a container that holds the files S:
\* 'directory not found' is what rclone says of a folder that does not exist
ListToolOutcomesOf(S) ==
  IF S = {} THEN ToolOutcomes
  ELSE ToolOutcomes \ {[ok |-> FALSE, error |-> <<"directory", "not found">>]}

\* the outcomes of rclone delete and DeleteObject
DeleteToolOutcomes ==
  {ToolOk, [ok |-> FALSE, error |-> <<"connection timed out">>]}

\* the message of an outcome of testConnection() or uploadFile()
ErrorOf(u, outcome) ==
  CASE outcome = "ok" -> <<>>
    [] outcome = "NotInitialized" -> NotInitialized(u)
    [] OTHER -> <<outcome>>

\* the record of a call: NoCall with the fields the call sets
Called(op, ok, error, remoteOps) ==
  [NoCall EXCEPT !.op = op, !.ok = ok, !.error = error,
                 !.remoteOps = remoteOps, !.before = remote,
                 !.initFailed = lastCall.initFailed]

\* await uploader.initialize()
DestInitialize ==
  /\ \E env \in InitEnvs :
       LET r == InitializeOf(dest, env)
       IN /\ dest' = IF r.ok THEN [dest EXCEPT !.initialized = TRUE]
                     ELSE dest
          /\ lastCall' = [Called("initialize", r.ok,
                                 IF r.ok THEN <<>> ELSE r.val, 0)
                            EXCEPT !.initFailed = @ \/ ~r.ok,
                                   !.env = Some(env)]
  /\ UNCHANGED <<remote, runVars, retryVars,
               deliveryVars, parseVars>>

\* await uploader.testConnection()
DestTestConnection ==
  /\ \E outcome \in TestConnectionOutcomes(dest) :
       lastCall' = Called("testConnection", outcome = "ok",
                          ErrorOf(dest, outcome),
                          IF outcome = "NotInitialized" THEN 0 ELSE 1)
  /\ UNCHANGED <<dest, remote, runVars, retryVars,
               deliveryVars, parseVars>>

\* await uploader.uploadFile(filePath, remotePath, fileName): the local
\* file exists or not; an upload puts the file, dated now, in the container
DestUploadFile ==
  /\ \E exists \in BOOLEAN, name \in 1..MaxRemote :
       \E outcome \in UploadOutcomes(dest, exists) :
         /\ remote' =
              IF outcome = "ok"
              THEN {f \in remote : f.name /= name}
                     \cup {[name |-> name, createdTime |-> Now]}
              ELSE remote
         /\ lastCall' = Called("uploadFile", outcome = "ok",
                               ErrorOf(dest, outcome),
                               IF outcome \in {"ok", "UploadError"} THEN 1
                               ELSE 0)
  /\ UNCHANGED <<dest, runVars, retryVars,
               deliveryVars, parseVars>>

\* await uploader.listFiles(remotePath)
DestListFiles ==
  /\ \E tool \in ListToolOutcomesOf(remote) :
     \E files \in ToolOutputOf(tool, remote) :
       LET r == ListFiles(dest, files, tool)
       IN lastCall' = [Called("listFiles", r.ok, r.error, r.remoteOps)
                        EXCEPT !.listing = r.listing,
                               !.tool = IF r.remoteOps = 0 THEN <<>>
                                        ELSE tool.error]
  /\ UNCHANGED <<dest, remote, runVars, retryVars,
               deliveryVars, parseVars>>

\* await uploader.deleteFile(remotePath, fileName)
DestDeleteFile ==
  /\ \E name \in 1..MaxRemote, tool \in DeleteToolOutcomes :
       LET r == DeleteFile(dest, tool)
       IN /\ remote' = IF r.ok THEN {f \in remote : f.name /= name}
                        ELSE remote
          /\ lastCall' = [Called("deleteFile", r.ok, r.error, r.remoteOps)
                           EXCEPT !.tool = IF r.remoteOps = 0 THEN <<>>
                                           ELSE tool.error]
  /\ UNCHANGED <<dest, runVars, retryVars,
               deliveryVars, parseVars>>

\* const deletedCount = await uploader.cleanupOldBackups(remotePath,
\* appConfig.retention_days) and the line of the log that reports it
DestCleanupOldBackups ==
  /\ \E retentionDays \in 1..(Now - 1), tool \in ListToolOutcomesOf(remote) :
     \E files \in ToolOutputOf(tool, remote) :
     \E failAt \in 0..Len(ExpiredFiles(ListFiles(dest, files, tool).listing,
                                       Cutoff(Now, retentionDays))) :
       LET list == ListFiles(dest, files, tool)
           r == CleanupOldBackupsOf(dest, list, retentionDays, failAt,
                                    <<"connection timed out">>)
       IN /\ remote' = remote \ Range(r.deleted)
          /\ lastCall' =
               [Called("cleanupOldBackups", r.ok, r.error, r.remoteOps)
                 EXCEPT !.listing = list.listing,
                        !.tool = IF list.remoteOps = 0 THEN <<>>
                                 ELSE tool.error,
                        !.retentionDays = retentionDays,
                        !.ret = r.ret,
                        !.deleted = Range(r.deleted),
                        !.reported = IF r.ok THEN ReportedDeletions(r.ret)
                                     ELSE 0]
  /\ UNCHANGED <<dest, runVars, retryVars,
               deliveryVars, parseVars>>

UploaderNext ==
  \/ DestInitialize
  \/ DestTestConnection
  \/ DestUploadFile
  \/ DestListFiles
  \/ DestDeleteFile
  \/ DestCleanupOldBackups

UploaderSpec == UploaderInit /\ [][UploaderNext]_vars

(***************************************************************************)
(* backup.js: the upload and cleanup phases of a run, against the remote   *)
(* stores.  The run starts where the archival loops end, every folder of   *)
(* the list having been archived at its first attempt.                     *)
(***************************************************************************)
\* the documents with which a run gets past its setup, every entry of
\* "uploaders" being enabled
PassingConfigDocs ==
  {doc \in ConfigDocs :
     /\ loadConfig(doc).ok
     /\ CreateFromConfig(doc.uploaders).ok
     /\ \A n \in 1..Len(doc.uploaders[1]) : ~Skipped(doc.uploaders[1][n])}

\* those of them that leave the name of the rclone remote to its default
\* and give no key prefix; a named remote and a prefix are explored where
\* the cleanup loop begins (CleanupSpec)
DeliveryConfigDocs ==
  {doc \in PassingConfigDocs :
     \A n \in 1..Len(doc.uploaders[1]) :
       /\ doc.uploaders[1][n].remote_name = Undefined
       /\ doc.uploaders[1][n].prefix = Undefined}

\* the line of .backup that names the folder /a
FolderA == CHOOSE l \in LineSet : l.text = <<"/", "a">>

\* the archive of the n-th folder, named in second n
ArchiveOf(n) ==
  LET name == GenerateTimestampFilename("folder", FolderA.base, n)
  IN [path |-> Path(name), name |-> name]

\* the backups an earlier run left on a remote: one made three days ago and
\* one made two days ago
OldFiles ==
  { [name |-> GenerateTimestampFilename("folder", FolderA.base, -2),
     createdTime |-> 0],
    [name |-> GenerateTimestampFilename("folder", FolderA.base, -1),
     createdTime |-> 1] }

\* the stores explored: each remote the uploaders ups talk to is empty or
\* holds the old backups at its root and the older of them in the folder
\* "backups" too
StoreSets(ups) ==
  [{RemoteOf(ups[n]) : n \in DOMAIN ups} ->
     {{}, {[folder |-> c, name |-> f.name, createdTime |-> f.createdTime] :
             c \in Containers, f \in OldFiles} \
          {g \in [folder : {"backups"}, name : {f.name : f \in OldFiles},
                  createdTime : 1..Now] : TRUE}}]

\* runBackup() where `const allBackups = [...]` has been computed
DeliveryInit ==
  /\ RetryIdle
  /\ UploaderIdle
  /\ ParseIdle
  /\ \E doc \in DeliveryConfigDocs, m \in 0..MaxArchives :
       LET created == CreateFromConfig(doc.uploaders).val
       IN /\ configDoc = Some(doc)
          /\ appConfig = loadConfig(doc).val
          /\ uploaders = [n \in 1..Len(created) |->
                            [created[n] EXCEPT !.initialized = TRUE]]
          /\ folders = [n \in 1..m |-> FolderA]
          /\ folderResult = [n \in 1..m |-> "ok"]
          /\ folderBackups = [n \in 1..m |-> ArchiveOf(n)]
          /\ localFiles = {ArchiveOf(n).path : n \in 1..m}
          /\ clock = m
          /\ stamped = (m > 0)
          /\ invoked = {"initialize", "testConnection"}
                         \cup (IF m > 0 THEN {"compressFolder"} ELSE {})
          /\ uploadResult = [n \in 1..Len(created) |-> <<>>]
          /\ cleanupCalls = [n \in 1..Len(created) |-> 0]
          /\ cleanupResult = [n \in 1..Len(created) |-> "none"]
  /\ databases = <<>>
  /\ dbResult = <<>>
  /\ dbBackups = <<>>
  /\ pc = "uploadBegin"
  /\ k = 1
  /\ i = 0
  /\ stage = "dump"
  /\ attempt = 0
  /\ archiveName = NoName
  /\ uploadSuccessCount = Undeclared
  /\ uploadFailCount = Undeclared
  /\ fatalAt = "none"
  /\ fatalError = <<>>
  /\ printed = {}
  /\ removed = 0
  /\ exitCode = Running
  /\ stores \in StoreSets(uploaders)
  /\ calls = {}

\* the record of a call runBackup() makes on destination k
CallOf(op, retentionDays) ==
  [op |-> op, dest |-> k, remotePath |-> RemotePath(uploaders[k]),
   container |-> ContainerOf(uploaders[k], RemotePath(uploaders[k])),
   retentionDays |-> retentionDays]

\* one attempt of  await retry(async () => { await uploader.uploadFile(
\* backup.path, remotePath, backup.name) }): rclone copy or PutObject puts
\* the file in the folder
UploadFileTo ==
  /\ UNCHANGED <<retryVars, uploaderVars, parseVars>>
  /\ pc = "upload"
  /\ \E outcome \in UploadFileOutcomes(uploaders[k], allBackups[i].path) :
       /\ UploadAttempt(outcome)
       /\ stores' = IF outcome = "ok"
                     THEN PutInto(stores, uploaders[k],
                                  RemotePath(uploaders[k]), allBackups[i].name)
                     ELSE stores
  /\ calls' = calls \cup {CallOf("uploadFile", 0)}

\* one iteration of the cleanup loop: const deletedCount = await
\* uploader.cleanupOldBackups(remotePath, appConfig.retention_days).
\* When traced, lastCall keeps what the call did.
CleanupOldBackupsOn(traced) ==
  /\ UNCHANGED <<retryVars, dest, remote, parseVars>>
  /\ pc = "cleanup"
  /\ LET u == uploaders[k]
         remotePath == RemotePath(u)
         retentionDays == appConfig.retention_days[1]
         content == {f \in stores[RemoteOf(u)] :
                       f.folder \in ListedContainers(u, remotePath)}
     IN /\ \E tool \in ListToolOutcomesOf(content) :
           \E files \in ToolOutputOf(tool, content) :
           \E failAt \in 0..Len(ExpiredFiles(ListFiles(u, files, tool).listing,
                                             Cutoff(Now, retentionDays))) :
             LET r == CleanupOldBackupsOf(u, ListFiles(u, files, tool),
                                          retentionDays, failAt,
                                          <<"connection timed out">>)
             IN /\ CleanupIteration(IF r.ok THEN "ok" ELSE "ListOrDeleteError")
                /\ stores' = RemoveFrom(stores, u, remotePath, Range(r.deleted))
                /\ lastCall' =
                     IF traced
                     THEN [NoCall EXCEPT
                             !.op = "cleanupOldBackups", !.ok = r.ok,
                             !.error = r.error, !.remoteOps = r.remoteOps,
                             !.before = content,
                             !.listing = ListFiles(u, files, tool).listing,
                             !.retentionDays = retentionDays, !.ret = r.ret,
                             !.deleted = Range(r.deleted),
                             !.reported = IF r.ok THEN ReportedDeletions(r.ret)
                                          ELSE 0]
                     ELSE lastCall
        /\ calls' = calls \cup {CallOf("cleanupOldBackups", retentionDays)}

DeliveryNext ==
  \/ UploadBegin
  \/ UploadFileTo
  \/ UploadEnd
  \/ RemoveLocalBackups
  \/ CleanupOldBackupsOn(FALSE)
  \/ Report

DeliverySpec == DeliveryInit /\ [][DeliveryNext]_vars

(***************************************************************************)
(* backup.js: the cleanup phase of a run against the remote stores, with   *)
(* what each cleanupOldBackups() did kept in lastCall.  The phase starts   *)
(* after a run whose uploads all succeeded at the first attempt.           *)
(***************************************************************************)
RECURSIVE UploadedTo(_, _, _)
\* the stores after the archives have been uploaded to the uploaders ups
UploadedTo(st, ups, backups) ==
  IF ups = <<>> THEN st
  ELSE IF backups = <<>> THEN st
  ELSE UploadedTo(
         UploadedTo(PutInto(st, Head(ups), RemotePath(Head(ups)),
                            Head(backups).name),
                    <<Head(ups)>>, Tail(backups)),
         Tail(ups), backups)

\* runBackup() where the cleanup loop begins
CleanupInit ==
  /\ RetryIdle
  /\ UploaderIdle
  /\ ParseIdle
  /\ \E doc \in {d \in PassingConfigDocs :
                   \A n \in 1..Len(d.uploaders[1]) :
                     \/ d.uploaders[1][n].remote_name /= Undefined
                     \/ d.uploaders[1][n].prefix /= Undefined},
        m \in 0..MaxArchives :
       LET created == CreateFromConfig(doc.uploaders).val
           ups == [n \in 1..Len(created) |->
                     [created[n] EXCEPT !.initialized = TRUE]]
           backups == [n \in 1..m |-> ArchiveOf(n)]
       IN \E st \in StoreSets(ups) :
          /\ configDoc = Some(doc)
          /\ appConfig = loadConfig(doc).val
          /\ uploaders = ups
          /\ folders = [n \in 1..m |-> FolderA]
          /\ folderResult = [n \in 1..m |-> "ok"]
          /\ folderBackups = backups
          /\ clock = m
          /\ stamped = (m > 0)
          /\ removed = m
          /\ invoked = {"initialize", "testConnection"}
                         \cup (IF m > 0 THEN {"compressFolder", "uploadFile"}
                               ELSE {})
          /\ uploadResult = [n \in 1..Len(ups) |-> [j \in 1..m |-> "ok"]]
          /\ cleanupCalls = [n \in 1..Len(ups) |-> 0]
          /\ cleanupResult = [n \in 1..Len(ups) |-> "none"]
          /\ stores = UploadedTo(st, ups, backups)
  /\ localFiles = {}
  /\ databases = <<>>
  /\ dbResult = <<>>
  /\ dbBackups = <<>>
  /\ pc = "cleanup"
  /\ k = 1
  /\ i = 0
  /\ stage = "dump"
  /\ attempt = 0
  /\ archiveName = NoName
  /\ uploadSuccessCount = Undeclared
  /\ uploadFailCount = Undeclared
  /\ fatalAt = "none"
  /\ fatalError = <<>>
  /\ printed = {}
  /\ exitCode = Running
  /\ calls = {}

CleanupNext ==
  \/ CleanupOldBackupsOn(TRUE)
  \/ Report

CleanupSpec == CleanupInit /\ [][CleanupNext]_vars

(***************************************************************************)
(* backup.js: the archival loops of a run, over targets that share a name. *)
(***************************************************************************)
\* Lines of .backup naming two folders whose path.basename() is the same
\* and two databases whose name (the last segment of the connection
\* string) is the same.
SameNameLines ==
  { [kind |-> "absolute", base |-> "a", exists |-> TRUE,
     text |-> <<"/", "a">>],
    [kind |-> "absolute", base |-> "a", exists |-> TRUE,
     text |-> <<"/", "x", "/", "a">>],
    [kind |-> "postgres", base |-> "d", exists |-> TRUE,
     text |-> <<"postgres://", "h1", "/", "d">>],
    [kind |-> "postgres", base |-> "d", exists |-> TRUE,
     text |-> <<"postgres://", "h2", "/", "d">>] }

\* runBackup() where the loop over the folders begins, setup having
\* succeeded with one destination; .backup holds some of those lines, none
\* of them twice
ArchiveInit ==
  /\ RetryIdle
  /\ UploaderIdle
  /\ DeliveryIdle
  /\ ParseIdle
  /\ \E f \in {g \in BoundedSeq(SameNameLines, MaxLines) :
                  /\ g /= <<>>
                  /\ \A m, n \in 1..Len(g) : m /= n => g[m] /= g[n]} :
       LET targets == loadBackupTargets(Some(f)).val
           doc == CHOOSE d \in DeliveryConfigDocs :
                    /\ d.retention_days = Undefined
                    /\ Len(d.uploaders[1]) = 1
           created == CreateFromConfig(doc.uploaders).val
           ups == [n \in 1..Len(created) |->
                     [created[n] EXCEPT !.initialized = TRUE]]
       IN /\ configDoc = Some(doc)
          /\ appConfig = loadConfig(doc).val
          /\ uploaders = ups
          /\ folders = targets.folders
          /\ databases = targets.databases
          /\ folderResult = [n \in 1..Len(targets.folders) |-> "none"]
          /\ dbResult = [n \in 1..Len(targets.databases) |-> "none"]
          /\ uploadResult = [n \in 1..Len(ups) |-> <<>>]
          /\ cleanupCalls = [n \in 1..Len(ups) |-> 0]
          /\ cleanupResult = [n \in 1..Len(ups) |-> "none"]
          /\ pc = Enter("folders", targets.folders, targets.databases, ups)[1]
          /\ k = Enter("folders", targets.folders, targets.databases, ups)[2]
  /\ i = 0
  /\ stage = "dump"
  /\ attempt = 0
  /\ archiveName = NoName
  /\ clock = 0
  /\ stamped = FALSE
  /\ folderBackups = <<>>
  /\ dbBackups = <<>>
  /\ localFiles = {}
  /\ uploadSuccessCount = Undeclared
  /\ uploadFailCount = Undeclared
  /\ fatalAt = "none"
  /\ fatalError = <<>>
  /\ invoked = {"initialize", "testConnection"}
  /\ printed = {}
  /\ removed = 0
  /\ exitCode = Running

ArchiveNext ==
  \/ CompressFolder
  \/ CreateDatabaseDump
  \/ CompressDatabaseDump

ArchiveSpec == ArchiveInit /\ [][ArchiveNext]_vars

TypeOK ==
  /\ pc \in {"loadConfig", "loadBackupTargets", "createUploaders",
             "initialize", "testConnection", "folders", "databases",
             "uploadBegin", "upload", "uploadEnd", "localCleanup", "cleanup",
             "report", "done"}
  /\ attempt \in 0..MaxRetries
  /\ exitCode \in {Running, Some(0), Some(1)}

(***************************************************************************)
(* Vocabulary of the properties.                                           *)
(***************************************************************************)
SetupPositions ==
  {"loadConfig", "loadBackupTargets", "createUploaders", "initialize",
   "testConnection"}

\* the steps of LoadConfig: the settings, the target list together with the
\* local backup directory, and the destinations
ConfigSteps ==
  {"loadConfig", "loadBackupTargets", "ensureLocalBackupDir",
   "createFromConfig"}

InitSteps == {"initialize", "testConnection"}

\* the operations that do the work of a backup
WorkOperations ==
  {"compressFolder", "createDatabaseDump", "compressDatabaseDump",
   "uploadFile", "cleanupOldBackups"}

\* LoadConfig and InitDestinations have succeeded
SetupPassed ==
  pc \notin SetupPositions /\ fatalAt \notin (ConfigSteps \cup InitSteps)

\* the process was ended by the 'error' event of an output stream, in the
\* middle of the archival loops: neither the report nor the outer catch ran
StreamFailed == pc = "done" /\ fatalAt = "none" /\ printed = {}

\* a run that got past LoadConfig and InitDestinations has come to its end,
\* through the report or through the outer catch
RunEnded == pc = "done" /\ SetupPassed /\ ~StreamFailed

\* every target has had its turn
ArchivalOver ==
  \/ pc \in {"uploadBegin", "upload", "uploadEnd", "localCleanup", "cleanup",
             "report"}
  \/ RunEnded

\* every uploader has had its turn in the upload loop
UploadOver == pc \in {"localCleanup", "cleanup", "report"} \/ RunEnded

CountOf(results, v) == Cardinality({n \in DOMAIN results : results[n] = v})

\* the retry-wrapped uploadFile of archive n succeeded on every uploader
UploadedEverywhere(n) ==
  \A u \in 1..Len(uploaders) :
    n <= Len(uploadResult[u]) /\ uploadResult[u][n] = "ok"

AnyUploadFailed ==
  \E u \in 1..Len(uploaders) :
    \E n \in 1..Len(uploadResult[u]) : uploadResult[u][n] = "fail"

AllTargetsFailed ==
  /\ Len(folders) + Len(databases) > 0
  /\ \A n \in 1..Len(folders) : folderResult[n] = "fail"
  /\ \A n \in 1..Len(databases) : dbResult[n] = "fail"

RECURSIVE Succeeded(_, _)
\* the targets whose result is "ok", in list order
Succeeded(targets, results) ==
  IF targets = <<>> THEN <<>>
  ELSE (IF Head(results) = "ok" THEN <<Head(targets)>> ELSE <<>>)
         \o Succeeded(Tail(targets), Tail(results))

\* backups holds one archive per succeeded target, in order, under its name
ArchivesOf(backups, kind, targets, results) ==
  LET ok == Succeeded(targets, results)
  IN /\ Len(backups) = Len(ok)
     /\ \A j \in 1..Len(backups) :
          /\ backups[j].name.kind = kind
          /\ backups[j].name.base = ok[j].base
          /\ backups[j].path = Path(backups[j].name)

(***************************************************************************)
(* Properties.                                                             *)
(***************************************************************************)
\* C1: when a run that reached the upload phase has ended, the local file
\* of every archive has been deleted if and only if the upload of that
\* archive succeeded on every active destination.
C1_LocalFileDeletedIffUploadedEverywhere ==
  RunEnded =>
    \A n \in 1..Len(allBackups) :
      (allBackups[n].path \notin localFiles) <=> UploadedEverywhere(n)

\* C2: a run that got past setup exits with code 0 when no upload failed
\* after retries and with code 1 when an upload failed on any destination.
C2_ExitCodeReflectsUploadFailures ==
  RunEnded => exitCode = (IF AnyUploadFailed THEN Some(1) ELSE Some(0))

\* the scenario of C3: two folder targets, one on disk and one not, and a
\* single destination on which every operation succeeds
C3_Scenario ==
  /\ RunEnded
  /\ Len(folders) = 2
  /\ Len(databases) = 0
  /\ \E n \in 1..2 : folders[n].exists /\ ~folders[3 - n].exists
  /\ \A n \in 1..2 : folders[n].exists => folderResult[n] = "ok"
  /\ Len(uploaders) = 1
  /\ \A n \in 1..Len(uploadResult[1]) : uploadResult[1][n] = "ok"
  /\ cleanupResult[1] = "ok"

\* C3: in that scenario the run exits with code 0, one target is recorded
\* as failed, one archive is uploaded and one local archive file is removed.
C3_EndToEnd ==
  C3_Scenario =>
    /\ exitCode = Some(0)
    /\ CountOf(folderResult, "fail") = 1
    /\ CountOf(uploadResult[1], "ok") = 1
    /\ removed = 1

C5_EveryPairAttempted ==
  UploadOver =>
    /\ \A u \in 1..Len(uploaders) :
         /\ Len(uploadResult[u]) = Len(allBackups)
         /\ \A n \in 1..Len(allBackups) : uploadResult[u][n] \in {"ok", "fail"}
    /\ Len(allBackups) > 0 => "uploadFile" \in invoked

\* an upload failed after its retries; the next archive on the same
\* destination and the same archive on the next destination went through
C5_Witness ==
  /\ UploadOver
  /\ \E u \in 1..(Len(uploaders) - 1) :
       \E n \in 1..(Len(allBackups) - 1) :
         /\ uploadResult[u][n] = "fail"
         /\ uploadResult[u][n + 1] = "ok"
         /\ uploadResult[u + 1][n] = "ok"

\* C6: when initialize() or testConnection() fails for a destination, the
\* run ends with exit code 1 and no archive, dump, upload or cleanup
\* operation has been invoked.
C6_InitFailureIsFatalBeforeAnyWork ==
  fatalAt \in InitSteps =>
    /\ pc = "done"
    /\ exitCode = Some(1)
    /\ invoked \cap WorkOperations = {}

\* the second destination's connection test failed after the first
\* destination had passed both steps
C6_Witness ==
  /\ fatalAt = "testConnection"
  /\ k = 2
  /\ uploaders[1].initialized /\ uploaders[2].initialized

\* C7: when loading the settings, loading the target list or
\* createFromConfig fails, the run ends with exit code 1 and neither a
\* destination method nor an archive or dump operation has been invoked.
C7_ConfigFailureIsFatalBeforeAnyCall ==
  fatalAt \in ConfigSteps =>
    /\ pc = "done"
    /\ exitCode = Some(1)
    /\ invoked = {}

\* createFromConfig threw on a settings document that loadConfig accepted
C7_Witness ==
  /\ fatalAt = "createFromConfig"
  /\ appConfig.uploaders /= Undefined
  /\ Len(appConfig.uploaders[1]) = MaxUploaders

\* C8: every step of the cleanup phase, whether cleanupOldBackups succeeds
\* or throws, moves on to the next destination (to the report after the
\* last one, each destination having been cleaned once) and leaves the exit
\* code and everything the report reads untouched.
C8_CleanupFailureIsIsolated ==
  [][pc = "cleanup" =>
       /\ UNCHANGED <<exitCode, uploadSuccessCount, uploadFailCount,
                      uploadResult, fatalAt, fatalError>>
       /\ cleanupCalls'[k] = 1
       /\ \/ k < Len(uploaders) /\ pc' = "cleanup" /\ k' = k + 1
          \/ /\ k = Len(uploaders)
             /\ pc' = "report"
             /\ \A u \in 1..Len(uploaders) : cleanupCalls'[u] = 1]_vars

\* cleanup failed on the first destination and succeeded on the second
C8_Witness ==
  /\ pc = "report"
  /\ Len(uploaders) = 2
  /\ cleanupResult[1] = "fail"
  /\ cleanupResult[2] = "ok"

\* C9: a run in which every target failed archival, setup having
\* succeeded, exits with code 0.
C9_AllTargetsFailedExitsZero ==
  (RunEnded /\ AllTargetsFailed) => exitCode = Some(0)

\* C10: every run that got past setup ends having printed the summary with
\* the duration and both upload counts, without taking the fatal-error path.
C10_SummaryAlwaysPrinted ==
  RunEnded =>
    /\ {"duration", "successful", "failed"} \subseteq printed
    /\ fatalAt = "none"

(***************************************************************************)
(* Properties of retry().                                                  *)
(***************************************************************************)
RECURSIVE SumSeq(_)
SumSeq(q) == IF q = <<>> THEN 0 ELSE Head(q) + SumSeq(Tail(q))

\* retry() has returned a value
RetryReturned == returned /= Undefined /\ returned[1].ok

\* retry() has thrown
RetryThrew == returned /= Undefined /\ ~returned[1].ok

\* C11: when fn fails on its first k invocations and succeeds on the next,
\* k being at most maxRetries, retry returns the value of fn, fn has been
\* invoked exactly k+1 times, and the waits were initialDelay*2^0, ...,
\* initialDelay*2^(k-1) in that order, initialDelay*(2^k - 1) in total;
\* with the default arguments and k = 3 the total is 7000 ms.
C11_BackoffUntilSuccess ==
  LET d == InitialDelayOf(retryArgs)
  IN /\ (retryPc = "done" /\ fnCalls = fnFails + 1) =>
          returned = Some(Ok(FnValue))
     /\ RetryReturned =>
          /\ returned[1].val = FnValue
          /\ fnFails <= MaxRetriesOf(retryArgs)
          /\ fnCalls = fnFails + 1
          /\ sleeps = [j \in 1..fnFails |-> d * 2^(j - 1)]
          /\ SumSeq(sleeps) = d * (2^fnFails - 1)
          /\ (retryArgs.maxRetries = Undefined
                /\ retryArgs.initialDelay = Undefined /\ fnFails = 3) =>
               /\ sleeps = <<1000, 2000, 4000>>
               /\ SumSeq(sleeps) = 7000

\* with the default arguments, fn failed three times and then succeeded
C11_Witness ==
  /\ RetryReturned
  /\ retryArgs.maxRetries = Undefined
  /\ retryArgs.initialDelay = Undefined
  /\ fnFails = 3
  /\ fnCalls = 4
  /\ SumSeq(sleeps) = 7000

\* C12: whatever fn throws and whatever maxRetries is, when retry throws,
\* fn has failed on all of its maxRetries+1 invocations, maxRetries sleeps
\* were made (none after the last attempt), and the error thrown is the
\* "Failed after ... attempts" error carrying the message of the last
\* failure.
C12_OnlyRetryExhaustedIsRaised ==
  RetryThrew =>
    /\ fnCalls = MaxRetriesOf(retryArgs) + 1
    /\ fnFails = fnCalls
    /\ Len(sleeps) = MaxRetriesOf(retryArgs)
    /\ Len(returned[1].val) = 4
    /\ returned[1].val[1] = "Failed after "
    /\ returned[1].val[2] = ToString(MaxRetriesOf(retryArgs) + 1)
    /\ lastError[1].kind = "Error" =>
         returned[1].val[4] = lastError[1].message[1]

(***************************************************************************)
(* Properties of createFromConfig(), read on the setup of a run.           *)
(***************************************************************************)
\* createFromConfig() has been called with an array and has returned or
\* thrown
CreateRan ==
  /\ appConfig.uploaders /= Undefined
  /\ \/ fatalAt = "createFromConfig"
     \/ /\ pc \notin {"loadConfig", "loadBackupTargets", "createUploaders"}
        /\ fatalAt \notin ConfigSteps

\* createFromConfig() returned a list
CreateReturned == CreateRan /\ fatalAt /= "createFromConfig"

\* the array createFromConfig() was called with
Entries == appConfig.uploaders[1]

\* the entry is not disabled: enabled is absent or is not false
Enabled(e) == e.enabled /= Some(FALSE)

HasType(e) == e.type /= Undefined /\ e.type[1] /= ""

UnknownType(e) ==
  HasType(e) /\ e.type[1] \notin {"gdrive", "s3-rclone", "s3-sdk"}

BucketMissing(e) ==
  /\ HasType(e)
  /\ e.type[1] \in {"s3-rclone", "s3-sdk"}
  /\ e.bucket \in {Undefined, Some("")}

\* an entry that is not disabled and cannot be turned into a destination
Invalid(e) == Enabled(e) /\ (~HasType(e) \/ UnknownType(e) \/ BucketMissing(e))

\* entry n is the first one createFromConfig() cannot accept
FirstInvalid(n) ==
  /\ n \in 1..Len(Entries)
  /\ Invalid(Entries[n])
  /\ \A m \in 1..(n - 1) : ~Invalid(Entries[m])

\* no destination exists and none has been touched
NoDestination == uploaders = <<>> /\ "initialize" \notin invoked

\* C15: when an entry that is not disabled has a type outside gdrive,
\* s3-rclone, s3-sdk, createFromConfig fails and returns no list, not even
\* of the valid entries before it; the error raised for that entry names
\* the type and the three recognized types.
C15_UnknownTypeIsRejected ==
  CreateRan =>
    \A n \in 1..Len(Entries) :
      (Enabled(Entries[n]) /\ UnknownType(Entries[n])) =>
        /\ fatalAt = "createFromConfig"
        /\ NoDestination
        /\ FirstInvalid(n) =>
             /\ Includes(fatalError,
                         <<"Unsupported uploader type: ", Entries[n].type[1]>>)
             /\ Includes(fatalError, SupportedTypes)

\* a valid entry is followed by an entry of type unknown-x
C15_Witness ==
  /\ CreateRan
  /\ Len(Entries) = 2
  /\ ~Invalid(Entries[1]) /\ Enabled(Entries[1])
  /\ UnknownType(Entries[2]) /\ Enabled(Entries[2])
  /\ fatalAt = "createFromConfig"
  /\ Includes(fatalError, <<"Unsupported uploader type: ", "unknown-x">>)

\* C16: createFromConfig never returns an empty list: with no entry, or
\* with every entry disabled, it fails with "No enabled uploaders
\* configured"; a run that is past the setup has at least one destination.
C16_NeverAnEmptyList ==
  /\ CreateReturned => Len(uploaders) >= 1
  /\ SetupPassed => Len(uploaders) >= 1
  /\ (CreateRan /\ \A n \in 1..Len(Entries) : ~Enabled(Entries[n])) =>
       /\ fatalAt = "createFromConfig"
       /\ fatalError = <<"No enabled uploaders configured">>
       /\ NoDestination

\* the array holds entries, all of them disabled
C16_Witness ==
  /\ CreateRan
  /\ Len(Entries) >= 1
  /\ \A n \in 1..Len(Entries) : ~Enabled(Entries[n])
  /\ fatalError = <<"No enabled uploaders configured">>

RECURSIVE EnabledEntries(_)
\* the entries that are not disabled, in configuration order
EnabledEntries(entries) ==
  IF entries = <<>> THEN <<>>
  ELSE (IF Enabled(Head(entries)) THEN <<Head(entries)>> ELSE <<>>)
         \o EnabledEntries(Tail(entries))

\* C17: when createFromConfig succeeds, the list holds one destination per
\* entry that is not disabled (an absent enabled field counts as enabled),
\* in configuration order, each of the type of its entry; a disabled entry
\* is never validated, so it cannot make createFromConfig fail.
C17_OneDestinationPerEnabledEntry ==
  /\ CreateReturned =>
       LET on == EnabledEntries(Entries)
       IN /\ Len(uploaders) = Len(on)
          /\ \A j \in 1..Len(on) : uploaders[j].type = on[j].type[1]
  /\ (CreateRan /\ Len(EnabledEntries(Entries)) >= 1
        /\ \A n \in 1..Len(Entries) : ~Invalid(Entries[n])) =>
       CreateReturned

\* a disabled entry without a type stands before an entry whose enabled
\* field is absent, and the list holds that one destination
C17_Witness ==
  /\ CreateReturned
  /\ Len(Entries) = 2
  /\ ~Enabled(Entries[1]) /\ ~HasType(Entries[1])
  /\ Entries[2].enabled = Undefined
  /\ Len(uploaders) = 1
  /\ uploaders[1].type = Entries[2].type[1]

\* C18: when an enabled s3-rclone or s3-sdk entry has no bucket,
\* createFromConfig fails before initialize() of any destination has been
\* called, and the error raised for that entry names the bucket.
C18_MissingBucketFailsAtConstruction ==
  CreateRan =>
    \A n \in 1..Len(Entries) :
      (Enabled(Entries[n]) /\ BucketMissing(Entries[n])) =>
        /\ fatalAt = "createFromConfig"
        /\ NoDestination
        /\ FirstInvalid(n) =>
             /\ Includes(fatalError, <<"bucket", "is required">>)
             /\ Includes(fatalError, <<Entries[n].type[1]>>)

\* a valid destination is followed by an s3-sdk entry without a bucket
C18_Witness ==
  /\ CreateRan
  /\ Len(Entries) = 2
  /\ ~Invalid(Entries[1]) /\ Enabled(Entries[1])
  /\ Entries[2].type = Some("s3-sdk") /\ BucketMissing(Entries[2])
  /\ fatalAt = "createFromConfig"
  /\ Includes(fatalError, <<"bucket", "is required">>)
  /\ "initialize" \notin invoked

(***************************************************************************)
(* Properties of the uploaders.                                            *)
(***************************************************************************)
\* cleanupOldBackups() was the last call and it returned
CleanupReturned == lastCall.op = "cleanupOldBackups" /\ lastCall.ok

\* the files of a set dated strictly before now - retentionDays days
StrictlyOlder(files, retentionDays) ==
  {f \in files : f.createdTime < Now - retentionDays}

\* C13: when cleanupOldBackups returns, every deleteFile having succeeded,
\* it has deleted exactly the listed files dated strictly before
\* now - retentionDays days; a listed file dated at the cutoff or later is
\* still in the container.  Checked for the three classes, the override of
\* GDriveUploader included.
C13_CleanupDeletesStrictlyOlder ==
  CleanupReturned =>
    LET old == StrictlyOlder(Range(lastCall.listing), lastCall.retentionDays)
    IN /\ lastCall.deleted = old
       /\ remote = lastCall.before \ old
       /\ \A f \in Range(lastCall.listing) :
            f.createdTime >= Now - lastCall.retentionDays => f \in remote

\* the override of GDriveUploader deleted an older file and kept a file
\* dated exactly at the cutoff
C13_Witness ==
  /\ CleanupReturned
  /\ dest.type = "gdrive"
  /\ lastCall.deleted /= {}
  /\ \E f \in remote :
       /\ f \in Range(lastCall.listing)
       /\ f.createdTime = Now - lastCall.retentionDays

\* C14: when cleanupOldBackups returns, its value is the number of files it
\* deleted (0 when the listing was empty), and the number of deletions the
\* run reports for the destination is that number.
C14_CleanupReturnsDeletedCount ==
  CleanupReturned =>
    /\ lastCall.ret = Some(Cardinality(lastCall.deleted))
    /\ lastCall.reported = Cardinality(lastCall.deleted)

\* the methods that require an initialized uploader
GuardedOps ==
  {"testConnection", "uploadFile", "listFiles", "deleteFile",
   "cleanupOldBackups"}

\* C19: a call of testConnection, uploadFile, listFiles, deleteFile or
\* cleanupOldBackups on an uploader whose initialize() has not succeeded
\* (never called, or called and failed) fails with the "not initialized"
\* error without any remote operation and leaves the container as it was;
\* an initialized uploader stays initialized.
C19_GuardedUntilInitialized ==
  [][/\ dest.initialized => dest'.initialized
     /\ (~dest.initialized /\ lastCall'.op \in GuardedOps) =>
          /\ ~lastCall'.ok
          /\ Includes(lastCall'.error, <<"not initialized">>)
          /\ lastCall'.remoteOps = 0
          /\ UNCHANGED <<dest, remote>>]_vars

\* initialize() failed, and cleanupOldBackups was then refused on a
\* container that holds files
C19_Witness ==
  /\ lastCall.initFailed
  /\ ~dest.initialized
  /\ lastCall.op = "cleanupOldBackups"
  /\ ~lastCall.ok
  /\ lastCall.remoteOps = 0
  /\ remote /= {}

\* C20: listFiles of an initialized uploader returns the files of the
\* container newest first, and the empty sequence when the container is
\* empty; for the rclone classes a 'directory not found' error of the tool
\* gives the empty sequence and every other error of the tool makes
\* listFiles fail with "Failed to list ...".
C20_ListingNewestFirstOrListError ==
  (lastCall.op = "listFiles" /\ dest.initialized) =>
    /\ lastCall.ok =>
         \A j \in 1..(Len(lastCall.listing) - 1) :
           lastCall.listing[j].createdTime
             >= lastCall.listing[j + 1].createdTime
    /\ lastCall.tool = <<>> =>
         lastCall.ok /\ Range(lastCall.listing) = lastCall.before
    /\ dest.type \in {"gdrive", "s3-rclone"} =>
         /\ lastCall.tool = <<"directory", "not found">> =>
              lastCall.ok /\ lastCall.listing = <<>>
         /\ lastCall.tool \notin {<<>>, <<"directory", "not found">>} =>
              ~lastCall.ok /\ Includes(lastCall.error, <<FailedToList(dest)>>)

(***************************************************************************)
(* Properties of the order of the run.                                     *)
(***************************************************************************)
\* The phase a position of runBackup() belongs to: 1 LoadConfig,
\* 2 InitDestinations, 3 ArchiveTargets, 4 Upload, 5 Cleanup, 6 Report,
\* 7 Terminal.
PhaseOf(p) ==
  CASE p \in {"loadConfig", "loadBackupTargets"} -> 1
    [] p \in {"createUploaders", "initialize", "testConnection"} -> 2
    [] p \in {"folders", "databases"} -> 3
    [] p \in {"uploadBegin", "upload", "uploadEnd", "localCleanup"} -> 4
    [] p = "cleanup" -> 5
    [] p = "report" -> 6
    [] OTHER -> 7

\* the archival attempt of every target has finished
AllTargetsAttempted ==
  /\ \A n \in 1..Len(folders) : folderResult[n] \in {"ok", "fail"}
  /\ \A n \in 1..Len(databases) : dbResult[n] \in {"ok", "fail"}

\* the upload attempt of every (archive, destination) pair has finished
AllPairsAttempted ==
  \A u \in 1..Len(uploaders) : Len(uploadResult[u]) = Len(allBackups)

\* C21: every step of a run stays in its phase or moves to the next one of
\* LoadConfig, InitDestinations, ArchiveTargets, Upload, Cleanup, Report,
\* Terminal (ArchiveTargets being passed at once when there is no target);
\* the only other step is from LoadConfig or InitDestinations to Terminal
\* with exit code 1.  uploadFile is not invoked before the archival attempt
\* of every target has finished, nor cleanupOldBackups before the upload
\* attempt of every (archive, destination) pair has finished.
C21_PhasesInOrder ==
  [][LET from == PhaseOf(pc)
         to == PhaseOf(pc')
     IN /\ \/ to = from
           \/ to = from + 1
           \/ from = 2 /\ to = 4 /\ folders = <<>> /\ databases = <<>>
           \/ from \in {1, 2} /\ to = 7 /\ exitCode' = Some(1)
        /\ "uploadFile" \in invoked' => AllTargetsAttempted'
        /\ "cleanupOldBackups" \in invoked' => AllPairsAttempted']_vars

\* the outcomes recorded so far: one per target, per (archive, destination)
\* pair and per cleaned destination
Recorded ==
  {<<"folder", n, 0>> : n \in {m \in 1..Len(folderResult) :
                                 folderResult[m] /= "none"}}
    \cup {<<"database", n, 0>> : n \in {m \in 1..Len(dbResult) :
                                         dbResult[m] /= "none"}}
    \cup UNION {{<<"upload", u, n>> : n \in 1..Len(uploadResult[u])} :
                  u \in 1..Len(uploadResult)}
    \cup {<<"cleanup", u, 0>> : u \in {v \in 1..Len(cleanupCalls) :
                                        cleanupCalls[v] > 0}}

\* the entries of results that are set are the first ones
InOrder(results) ==
  \A n \in 2..Len(results) : results[n] /= "none" => results[n - 1] /= "none"

\* the operations done so far were done one after the other, in order
OneAtATime ==
  /\ InOrder(folderResult)
  /\ InOrder(dbResult)
  /\ (\E n \in 1..Len(dbResult) : dbResult[n] /= "none") =>
       \A n \in 1..Len(folderResult) : folderResult[n] /= "none"
  /\ pc = "folders" =>
       \A n \in 1..Len(folders) : folderResult[n] /= "none" <=> n < k
  /\ pc = "databases" =>
       \A n \in 1..Len(databases) : dbResult[n] /= "none" <=> n < k
  /\ \A u \in 2..Len(uploadResult) :
       uploadResult[u] /= <<>> => Len(uploadResult[u - 1]) = Len(allBackups)
  /\ pc = "upload" =>
       /\ Len(uploadResult[k]) = i - 1
       /\ \A u \in (k + 1)..Len(uploaders) : uploadResult[u] = <<>>
  /\ \A u \in 2..Len(cleanupCalls) :
       cleanupCalls[u] > 0 => cleanupCalls[u - 1] > 0
  /\ attempt > 0 => pc \in {"folders", "databases", "upload"} \/ StreamFailed

\* C22: a step of the run completes at most one archive, dump, upload or
\* cleanup operation, and a backoff sleep belongs to the one operation in
\* progress; the folders and then the databases are archived in the order
\* of their lists, each archive is offered to the destinations in
\* configuration order, and the destinations are cleaned in that order.
C22_StrictlySequential ==
  [][/\ Cardinality(Recorded') <= Cardinality(Recorded) + 1
     /\ OneAtATime']_vars

\* the second archive is in a backoff sleep on the second destination,
\* the first destination having been offered both archives
C22_Witness ==
  /\ pc = "upload"
  /\ k = 2
  /\ i = 2
  /\ attempt > 0
  /\ Len(uploadResult[1]) = 2
  /\ Len(uploadResult[2]) = 1

(***************************************************************************)
(* Properties of the settings and of the target list.                      *)
(***************************************************************************)
\* loadConfig() has parsed a document
ConfigRead == configDoc /= Undefined

\* a readable document made of the fields retention_days, schedule and
\* uploaders, and of nothing else (the example of the README)
Documented(doc) == doc.readable /\ doc.google_drive_folder_path = Undefined

\* C23: loadConfig accepts every readable document that holds only
\* retention_days, schedule and uploaders: the run does not end at
\* loadConfig and goes on with the uploaders of the document.
C23_DocumentedFieldsAreAccepted ==
  (ConfigRead /\ Documented(configDoc[1])) =>
    /\ fatalAt /= "loadConfig"
    /\ pc /= "loadConfig"
    /\ appConfig.uploaders = configDoc[1].uploaders

\* the pieces of a line that are not white space
NotWhite(c) == c \notin Whitespace

\* the text of a line without the white space at its two ends
Core(line) ==
  LET inked == {j \in 1..Len(line.text) : NotWhite(line.text[j])}
  IN IF inked = {} THEN <<>>
     ELSE SubSeq(line.text, CHOOSE j \in inked : \A m \in inked : j <= m,
                 CHOOSE j \in inked : \A m \in inked : j >= m)

\* the line is neither blank nor a comment
IsTarget(t) == t /= <<>> /\ t[1] /= "#"

IsDatabase(t) == IsTarget(t) /\ t[1] = "postgres://"

IsFolder(t) == IsTarget(t) /\ t[1] /= "postgres://"

TextsOf(targets) == [n \in DOMAIN targets |-> targets[n].text]

\* C25: of the lines of a .backup file, white space at their ends set
\* aside, the blank ones and those starting with '#' yield no target; if
\* one of the others starts neither with postgres:// nor with '/', loading
\* fails with "Folder path must be absolute"; otherwise the databases are
\* exactly the lines starting with postgres:// and the folders exactly the
\* remaining lines, one target per line, each list in file order.
C25_TargetsParsed ==
  (parsed /= Undefined /\ targetsFile /= Undefined) =>
    LET texts == [n \in 1..Len(targetsFile[1]) |-> Core(targetsFile[1][n])]
    IN IF \E n \in 1..Len(texts) : IsFolder(texts[n]) /\ texts[n][1] /= "/"
       THEN /\ ~parsed[1].ok
            /\ Includes(parsed[1].val, <<"Folder path must be absolute">>)
       ELSE /\ parsed[1].ok
            /\ TextsOf(parsed[1].val.folders) = SelectSeq(texts, IsFolder)
            /\ TextsOf(parsed[1].val.databases) = SelectSeq(texts, IsDatabase)

\* an indented comment is followed by a folder, and one folder is returned
C25_Witness ==
  /\ parsed /= Undefined
  /\ targetsFile /= Undefined
  /\ Len(targetsFile[1]) = 2
  /\ targetsFile[1][1].text = <<" ", "#", "c">>
  /\ targetsFile[1][2].text = <<"/", "a">>
  /\ parsed[1].ok
  /\ Len(parsed[1].val.folders) = 1
  /\ parsed[1].val.databases = <<>>

(***************************************************************************)
(* Properties of the upload and cleanup phases against the remote stores.  *)
(***************************************************************************)
\* the retention_days of the document, 7 when the document has none
ConfiguredRetention ==
  IF configDoc[1].retention_days = Undefined THEN DefaultRetentionDays
  ELSE configDoc[1].retention_days[1]

\* C24: the retention period runBackup() passes to cleanupOldBackups is
\* the retention_days of .config, whatever integer it is (0 included), and
\* 7 when .config has no retention_days.
C24_RetentionIsTheConfiguredValue ==
  \A c \in calls :
    c.op = "cleanupOldBackups" => c.retentionDays = ConfiguredRetention

\* the entry of .config destination n was created from
EntryOf(n) == EnabledEntries(Entries)[n]

\* C26: every uploadFile and cleanupOldBackups call on a gdrive
\* destination configured with folder_path P is passed P as its remote
\* path and works on the container P of the remote.
C26_GDriveUsesConfiguredFolder ==
  \A c \in calls :
    (EntryOf(c.dest).type = Some("gdrive")
       /\ EntryOf(c.dest).folder_path /= Undefined) =>
      /\ c.remotePath = EntryOf(c.dest).folder_path[1]
      /\ c.container = EntryOf(c.dest).folder_path[1]

\* C27: an iteration of the cleanup loop is the one cleanupOldBackups call
\* of its destination, whatever the uploads did; it changes no remote but
\* the one of that destination, deletes nothing there but files of the
\* listing of that destination dated strictly before now - retention_days,
\* and all of them when it succeeds; when the loop ends every destination
\* has been cleaned exactly once.
C27_CleanupPerDestination ==
  [][pc = "cleanup" =>
       LET u == uploaders[k]
           r == RemoteOf(u)
           content == {f \in stores[r] :
                         f.folder \in ListedContainers(u, RemotePath(u))}
           gone == stores[r] \ stores'[r]
           old == StrictlyOlder(content, appConfig.retention_days[1])
       IN /\ cleanupCalls[k] = 0
          /\ cleanupCalls' = [cleanupCalls EXCEPT ![k] = 1]
          /\ \A r2 \in DOMAIN stores : r2 /= r => stores'[r2] = stores[r2]
          /\ stores'[r] \subseteq stores[r]
          /\ gone \subseteq old
          /\ cleanupResult'[k] = "ok" => gone = old
          /\ pc' = "report" =>
               \A v \in 1..Len(uploaders) : cleanupCalls'[v] = 1]_vars

\* the upload failed on the first destination and succeeded on the second;
\* the cleanup of the first deleted the old backup of the root of its
\* remote and left the folder "backups" as it was, the cleanup of the
\* second listed its whole bucket and deleted the old backup of both folders
C27_Witness ==
  /\ pc = "report"
  /\ Len(uploaders) = 2
  /\ uploaders[1].type = "gdrive"
  /\ uploaders[2].type = "s3-sdk"
  /\ uploadResult = << <<"fail">>, <<"ok">> >>
  /\ cleanupResult = <<"ok", "ok">>
  /\ appConfig.retention_days = Some(2)
  /\ \E f \in stores[RemoteOf(uploaders[1])] :
       /\ f.folder = "backups"
       /\ [f EXCEPT !.folder = ""] \notin stores[RemoteOf(uploaders[1])]
       /\ \A c \in Containers :
            [f EXCEPT !.folder = c] \notin stores[RemoteOf(uploaders[2])]
  /\ \E f \in stores[RemoteOf(uploaders[2])] : f.createdTime = 1

\* C28: when the cleanup phase is over, every archive whose upload to a
\* destination succeeded in this run is still in the container it was
\* uploaded to, whatever retention_days .config gives.
C28_FreshBackupsSurviveCleanup ==
  (stores /= <<>> /\ pc \in {"report", "done"}) =>
    \A u \in 1..Len(uploaders) :
      \A n \in 1..Len(uploadResult[u]) :
        uploadResult[u][n] = "ok" =>
          \E f \in stores[RemoteOf(uploaders[u])] :
            /\ f.folder = ContainerOf(uploaders[u], RemotePath(uploaders[u]))
            /\ f.name = allBackups[n].name

(***************************************************************************)
(* Properties of the log of retry() and of the upload counters.            *)
(***************************************************************************)
\* C29: the trace of retry() is a failure log followed by a backoff sleep
\* for every failed attempt that another attempt follows, the log of
\* attempt j standing right before the j-th sleep, and nothing else: the
\* logs are as many as the sleeps, at most maxRetries, and the failed
\* attempt that ends retry() is not logged.
C29_LogBeforeEachSleep ==
  /\ Len(retryTrace) = 2 * Len(sleeps)
  /\ \A j \in 1..Len(sleeps) :
       /\ retryTrace[2 * j - 1] = <<"log", j>>
       /\ retryTrace[2 * j] = <<"sleep", sleeps[j]>>
  /\ Len(sleeps) <= MaxRetriesOf(retryArgs)
  /\ retryPc = "loop" => Len(sleeps) = fnFails
  /\ RetryReturned => Len(sleeps) = fnFails
  /\ RetryThrew => Len(sleeps) = fnFails - 1

\* with the default arguments fn failed four times: three logs, each right
\* before its sleep, and none for the last failure
C29_Witness ==
  /\ RetryThrew
  /\ retryArgs.maxRetries = Undefined
  /\ fnFails = 4
  /\ Len(retryTrace) = 6
  /\ retryTrace[5] = <<"log", 3>>
  /\ retryTrace[6] = <<"sleep", 4 * InitialDelayOf(retryArgs)>>

\* the number of (archive, destination) pairs whose upload ended as v
PairsWith(v) ==
  Cardinality(UNION {{<<u, n>> : n \in {m \in 1..Len(uploadResult[u]) :
                                          uploadResult[u][m] = v}} :
                       u \in 1..Len(uploadResult)})

\* C30: while the upload loop works on a destination, uploadSuccessCount
\* and uploadFailCount are the numbers of archives whose upload to it
\* succeeded and failed, their sum being the number of archives attempted
\* on it, all of them when its loop ends; the counts the report prints and
\* decides the exit code with are those of all the destinations.
C30_UploadCountersAccount ==
  /\ pc \in {"upload", "uploadEnd"} =>
       /\ uploadSuccessCount = Some(CountOf(uploadResult[k], "ok"))
       /\ uploadFailCount = Some(CountOf(uploadResult[k], "fail"))
       /\ uploadSuccessCount[1] + uploadFailCount[1] = Len(uploadResult[k])
       /\ pc = "upload" => Len(uploadResult[k]) = i - 1
       /\ pc = "uploadEnd" => Len(uploadResult[k]) = Len(allBackups)
  /\ pc = "report" =>
       /\ uploadSuccessCount = Some(PairsWith("ok"))
       /\ uploadFailCount = Some(PairsWith("fail"))

(***************************************************************************)
(* Properties of the retry-wrapped operations of a run.                    *)
(***************************************************************************)
\* the step ends the retry() in progress, r being the outcome recorded
\* as entry n of the results after it
Settles(after, n, r) ==
  /\ after[n] = r
  /\ attempt' = 0
  /\ r = "fail" => attempt = MaxRetries

\* the step is a failed invocation that another invocation of the same
\* operation follows, after a backoff sleep
TriesAgain == attempt' = attempt + 1 /\ UNCHANGED <<pc, k, i, stage>>

\* At most four invocations, none after a success: an invocation of
\* uploadFile, compressFolder, createDatabaseDump or compressDatabaseDump
\* is at most the fourth one of its retry(), and is made for a pair or
\* target that has no outcome yet; it is followed by another one only when
\* it failed, and on success the run leaves the pair or the operation for
\* good; a compress invocation during which the process is ended is
\* followed by nothing.  An outcome is recorded only by such an invocation
\* and is never changed afterwards.
AtMostFourTriesNoneAfterSuccess ==
  [][/\ pc = "upload" =>
          /\ attempt + 1 <= MaxRetries + 1
          /\ Len(uploadResult[k]) = i - 1
          /\ \/ TriesAgain /\ UNCHANGED uploadResult
             \/ /\ \E r \in {"ok", "fail"} :
                     /\ uploadResult'[k] = Append(uploadResult[k], r)
                     /\ Settles(uploadResult'[k], i, r)
                /\ <<pc', k', i'>> /= <<pc, k, i>>
     /\ pc = "folders" =>
          /\ attempt + 1 <= MaxRetries + 1
          /\ folderResult[k] = "none"
          /\ \/ TriesAgain /\ UNCHANGED folderResult
             \/ StreamFailed' /\ UNCHANGED folderResult
             \/ /\ \E r \in {"ok", "fail"} : Settles(folderResult', k, r)
                /\ <<pc', k'>> /= <<pc, k>>
     /\ pc = "databases" =>
          /\ attempt + 1 <= MaxRetries + 1
          /\ dbResult[k] = "none"
          /\ \/ TriesAgain /\ UNCHANGED dbResult
             \/ StreamFailed' /\ stage = "compress" /\ UNCHANGED dbResult
             \/ /\ stage = "dump" /\ stage' = "compress"
                /\ attempt' = 0
                /\ UNCHANGED <<pc, k, dbResult>>
             \/ /\ \E r \in {"ok", "fail"} :
                     /\ Settles(dbResult', k, r)
                     /\ r = "ok" => stage = "compress"
                /\ <<pc', k'>> /= <<pc, k>>
     /\ pc \notin {"upload", "createUploaders"} => UNCHANGED uploadResult
     /\ pc \notin {"folders", "loadBackupTargets"} => UNCHANGED folderResult
     /\ pc \notin {"databases", "loadBackupTargets"} => UNCHANGED dbResult
     /\ \A u \in 1..Len(uploadResult) : \A n \in 1..Len(uploadResult[u]) :
          uploadResult'[u][n] = uploadResult[u][n]
     /\ \A n \in 1..Len(folderResult) :
          folderResult[n] /= "none" => folderResult'[n] = folderResult[n]
     /\ \A n \in 1..Len(dbResult) :
          dbResult[n] /= "none" => dbResult'[n] = dbResult[n]]_vars

\* uploadFile has been invoked for every pair of an archive made in the
\* run and a destination: the pair has its outcome, which an invocation
\* alone records
EveryPairInvoked ==
  \A u \in 1..Len(uploaders) : \A n \in 1..Len(allBackups) :
    n <= Len(uploadResult[u])

\* C31: when the run has ended, uploadFile has been invoked at least once
\* for every (archive, destination) pair; every invocation of uploadFile
\* for a pair, and of compressFolder, createDatabaseDump and
\* compressDatabaseDump for a target, is at most the fourth one, and none
\* follows one that succeeded.
C31_InvokedOneToFourTimes ==
  /\ [](pc = "done" => EveryPairInvoked)
  /\ AtMostFourTriesNoneAfterSuccess

(***************************************************************************)
(* Properties of the archives of targets that share a name.                *)
(***************************************************************************)
\* the targets whose archival succeeded, in the order of allBackups
ArchivedTargets ==
  Succeeded(folders, folderResult) \o Succeeded(databases, dbResult)

\* C32: once the archival loops are over, the archives of two distinct
\* targets have distinct names and distinct local paths, and every one of
\* them is a file of its own in the backup directory.
C32_DistinctTargetsDistinctArchives ==
  ArchivalOver =>
    /\ Len(allBackups) = Len(ArchivedTargets)
    /\ \A m, n \in 1..Len(allBackups) :
         ArchivedTargets[m] /= ArchivedTargets[n] =>
           /\ allBackups[m].path /= allBackups[n].path
           /\ allBackups[m].name /= allBackups[n].name
    /\ Cardinality({allBackups[n].path : n \in 1..Len(allBackups)} \cap localFiles)
         = Len(allBackups)

(***************************************************************************)
(* Properties of the effects of the phases on the remote stores.           *)
(***************************************************************************)
\* every remote of st holds the files the same remote of fewer holds
Keeps(fewer, st) == \A r \in DOMAIN fewer : fewer[r] \subseteq st[r]

\* C33: a step outside the Cleanup phase removes no file from any remote
\* container and calls no cleanupOldBackups (the only caller of
\* deleteFile); a step of the Cleanup phase calls cleanupOldBackups only,
\* adds no file to any container, records no upload and leaves the local
\* backup directory as it is.
C33_DeletionsOnlyInCleanup ==
  [][/\ PhaseOf(pc) /= 5 =>
          /\ Keeps(stores, stores')
          /\ \A call \in calls' \ calls : call.op /= "cleanupOldBackups"
          /\ "cleanupOldBackups" \notin invoked' \ invoked
     /\ PhaseOf(pc) = 5 =>
          /\ Keeps(stores', stores)
          /\ \A call \in calls' \ calls : call.op = "cleanupOldBackups"
          /\ invoked' \ invoked \subseteq {"cleanupOldBackups"}
          /\ UNCHANGED <<localFiles, removed, uploadResult, folderBackups,
                         dbBackups>>]_vars

\* the run is over: a destination whose remote held the old backups got
\* the new archive in the Upload phase and lost an old one in Cleanup
C33_Witness ==
  /\ pc = "done"
  /\ \E u \in 1..Len(uploaders) :
       LET held == {[name |-> f.name, createdTime |-> f.createdTime] :
                      f \in {g \in stores[RemoteOf(uploaders[u])] :
                               g.folder = ContainerOf(uploaders[u],
                                                      RemotePath(uploaders[u]))}}
       IN /\ uploadResult[u] = <<"ok">>
          /\ cleanupResult[u] = "ok"
          /\ ArchiveOf(1).name \in {f.name : f \in held}
          /\ \E f \in OldFiles : f \notin held
          /\ \E f \in OldFiles : f \in held

\* cleanupOldBackups() was the last call and a deleteFile() of it failed
DeleteFailed ==
  /\ lastCall.op = "cleanupOldBackups"
  /\ ~lastCall.ok
  /\ Includes(lastCall.error, <<"Failed to delete file: ">>)

\* the expired files of the listing of the last call, in listing order
ExpiredListed ==
  ExpiredFiles(lastCall.listing, Cutoff(Now, lastCall.retentionDays))

\* C34: when a deleteFile() fails inside the cleanupOldBackups() of a
\* destination, the call throws that error and returns no count; the
\* expired files listed before the failing one are deleted and stay so,
\* the failing one and every later one are still on the remote, no
\* remote operation follows the failed delete, and runBackup() records the
\* destination's cleanup as failed after this single call and moves on.
C34_DeleteFailureEndsCleanup ==
  [][(pc = "cleanup" /\ DeleteFailed') =>
       LET u == uploaders[k]
           r == RemoteOf(u)
           old == ExpiredListed'
           done == Cardinality(lastCall'.deleted)
       IN /\ done < Len(old)
          /\ lastCall'.deleted = Range(SubSeq(old, 1, done))
          /\ stores' = [stores EXCEPT ![r] = @ \ lastCall'.deleted]
          /\ \A n \in (done + 1)..Len(old) : old[n] \in stores'[r]
          /\ lastCall'.remoteOps = 1 + done + 1
          /\ lastCall'.ret = Undefined
          /\ lastCall'.reported = 0
          /\ cleanupResult'[k] = "fail"
          /\ cleanupCalls'[k] = 1
          /\ <<pc', k'>> = AfterIteration("cleanup", k)]_vars

\* the run is over: in the cleanup of a destination one expired file was
\* deleted, the delete of the next one failed, and a later expired file
\* was not attempted
C34_Witness ==
  /\ pc = "done"
  /\ DeleteFailed
  /\ lastCall.deleted /= {}
  /\ Len(ExpiredListed) >= Cardinality(lastCall.deleted) + 2
  /\ \E u \in 1..Len(uploaders) : cleanupResult[u] = "fail"

(***************************************************************************)
(* Properties of the local backup directory.                               *)
(***************************************************************************)
\* C35: once the archival loops are over, the backup directory holds the
\* dump file of no database target, whether the target was archived or
\* failed.
C35_NoDumpLeftAfterArchival ==
  ArchivalOver =>
    \A n \in 1..Len(databases) :
      Path(DumpFileName(databases[n])) \notin localFiles

(***************************************************************************)
(* Termination.                                                            *)
(***************************************************************************)
\* the process has exited
Terminated == pc = "done" /\ exitCode \in {Some(0), Some(1)}

\* C36: every run in which each awaited operation returns or fails reaches
\* the terminal state with an exit code, no retry() having gone past its
\* fourth invocation on the way.
C36_Termination ==
  /\ <>Terminated
  /\ [](attempt + 1 <= MaxRetries + 1)

\* a run ended after a folder and an upload had each failed four times
C36_Witness ==
  /\ Terminated
  /\ SetupPassed
  /\ AnyUploadFailed
  /\ \E n \in 1..Len(folders) : folderResult[n] = "fail"
  /\ \E u \in 1..Len(uploaders) : cleanupResult[u] = "fail"

(***************************************************************************)
(* The run with one destination against the earlier runBackup().           *)
(***************************************************************************)
\* the local files when the upload phase began: what is left now and the
\* archives, which the archival loops had written
FilesBeforeUpload ==
  localFiles \cup {allBackups[n].path : n \in 1..Len(allBackups)}

\* the names of the archives whose outcome in results is "ok", in order
RECURSIVE NamesOk(_, _)
NamesOk(backups, results) ==
  IF backups = <<>> THEN <<>>
  ELSE (IF Head(results) = "ok" THEN <<Head(backups).name>> ELSE <<>>)
         \o NamesOk(Tail(backups), Tail(results))

\* C37: a run with exactly one destination that got past setup ends as the
\* earlier single-destination runBackup() does on the same archives and
\* the same upload outcomes: the same archives uploaded, the same local
\* files left (an archive is gone iff its upload succeeded) and the same
\* exit code (1 iff an upload failed).
C37_OneDestinationAsBefore ==
  (RunEnded /\ Len(uploaders) = 1) =>
    LET before == SingleDestinationRun(allBackups, uploadResult[1],
                                       FilesBeforeUpload)
    IN /\ NamesOk(allBackups, uploadResult[1]) = before.uploaded
       /\ localFiles = before.localFiles
       /\ exitCode = before.exitCode

(***************************************************************************)
(* Properties of initialize() of the rclone uploaders.                     *)
(***************************************************************************)
\* initialize() of an rclone uploader was the last call
RcloneInitialized ==
  lastCall.op = "initialize" /\ dest.type \in {"gdrive", "s3-rclone"}

\* rclone ran, this.remoteName is not among its remotes and, for
\* s3-rclone, the environment holds no credentials
RemoteAbsent ==
  /\ lastCall.env[1].tool = "runs"
  /\ ~lastCall.env[1].remotePresent
  /\ dest.type = "s3-rclone" => ~lastCall.env[1].credentials

\* C38: when rclone runs and the configured remote is absent (and, for
\* s3-rclone, no credentials are in the environment), initialize() throws
\* an error that names the missing remote; it throws 'rclone is not
\* installed' only when running rclone itself failed.
C38_MissingRemoteIsReported ==
  RcloneInitialized =>
    /\ RemoteAbsent =>
         /\ ~lastCall.ok
         /\ Includes(lastCall.error, <<dest.remoteName[1]>>)
         /\ Includes(lastCall.error, <<"not found">>)
    /\ lastCall.error = NotInstalled => lastCall.env[1].tool /= "runs"

====
